---- MODULE Spec2Model ----
(***************************************************************************)
(* EasyIPC: a Client (SUB + REQ endpoints) and a Server (PUB + REP         *)
(* endpoints) hosted by caller threads, each instance with one background  *)
(* receive thread.  The transport (nng) is modelled by a table of socket   *)
(* handles, the REQ/REP one-request protocol and a bounded SUB queue.      *)
(***************************************************************************)
EXTENDS Integers, Sequences, FiniteSets, TLC

\* ------------------------------------------------------------------ bounds
\* API calls one caller thread makes in a run of Spec.
MaxOps == 3
\* API calls two caller threads make in a run of SpecRace.
MaxRaceOps == 2
\* Largest maxRetries value handed to Client::connect.
MaxRetries == 2
\* Requests that peers other than the modelled Client send to the Server.
MaxPeerRequests == 1
\* Capacity of the Client's SUB receive queue (PUB drops when it is full).
MaxQueue == 1

Threads == {"t1", "t2"}
Events == {"e1", "e2"}
Keys == {"none", "k1"}
HandlerOutcomes == {"value", "nothing", "throws_std", "throws_other"}

VARIABLES
  sock,               \* transport: handle id -> socket state (nng socket table)
  repPending,         \* transport: the request the REP socket has to answer
  reqOut,             \* transport: the Client REQ socket's outstanding request
  subQueue,           \* transport: broadcasts queued on the Client SUB socket
  peerRequests,       \* requests sent so far by other peers
  subSocket, reqSocket, pubSocket, repSocket,   \* NngSocket members
  isRunning,          \* [Client, Server] running flag
  connected,          \* Client::connected
  isStarted,          \* Server::isStarted
  receiveThread,      \* [Client, Server] std::thread member (joinable or not)
  loop,               \* [Client, Server] the background thread's position and locals
  live,               \* [Client, Server] background threads started and not yet returned
  eventHandlers,      \* [Client, Server] event name -> handler
  encryptionStrategy, \* [Client, Server] key of the strategy, "none" when unset
  lastSubDialError, lastReqDialError,           \* Client members
  shutdownMutex, handlerMutex, reqMutex,        \* owner thread or "free"
  pc, loc, ret,       \* caller threads: position, locals, result of the last call
  ops,                \* API calls made so far
  alive,              \* [Client, Server] constructed and not yet destroyed
  focus,              \* the instance whose member functions this run's callers use
  terminated,         \* std::terminate was called
  strategy,           \* the EncryptionStrategy object under test
  plainText,          \* the text handed to encrypt
  finalMessage,       \* the message produced by encrypt, as handed to decrypt
  decrypted,          \* outcome of the decrypt call
  origin              \* what happened to the message between encrypt and decrypt

netVars == <<sock, repPending, reqOut, subQueue, peerRequests>>
sockVars == <<subSocket, reqSocket, pubSocket, repSocket>>
flagVars == <<isRunning, connected, isStarted>>
threadVars == <<receiveThread, loop, live>>
confVars == <<eventHandlers, encryptionStrategy>>
errVars == <<lastSubDialError, lastReqDialError>>
lockVars == <<shutdownMutex, handlerMutex, reqMutex>>
strategyVars == <<strategy, plainText, finalMessage, decrypted, origin>>
runVars == <<focus, strategyVars>>
callVars == <<pc, loc, ret, ops, alive, runVars>>
vars == <<netVars, sockVars, flagVars, threadVars, confVars, errVars, lockVars,
          callVars, terminated>>

Instances == {"Client", "Server"}
LoopThread == [Client |-> "cloop", Server |-> "sloop"]

\* ------------------------------------------------------- message encoding
\* nlohmann::json values: an envelope {event, data}, or any other object.
Envelope(event, data) == [event |-> event, data |-> data]
\* json::dump: the text of a value.
Dump(json) == <<"json", json>>
\* json::parse: the value of a text, or a parse_error.
Parse(text) ==
  IF text[1] = "json" THEN [ok |-> TRUE, json |-> text[2]]
  ELSE [ok |-> FALSE, what |-> "parse_error"]
\* encrypt is applied only when a strategy is set.
Encrypt(key, text) == IF key = "none" THEN text ELSE <<"aead", key, text>>
\* decrypt fails on anything that is not a ciphertext under the same key.
Decrypt(key, message) ==
  IF key = "none" THEN [ok |-> TRUE, text |-> message]
  ELSE IF message[1] = "aead" /\ message[2] = key
       THEN [ok |-> TRUE, text |-> message[3]]
       ELSE [ok |-> FALSE, what |-> "Decryption failed"]

\* Server.cpp 154-163 / Client.cpp 225-234: decrypt, parse, read event and data.
DecodeEnvelope(key, message) ==
  LET d == Decrypt(key, message) IN
  IF ~d.ok THEN [ok |-> FALSE, what |-> d.what]
  ELSE LET p == Parse(d.text) IN
       IF ~p.ok THEN [ok |-> FALSE, what |-> p.what]
       ELSE IF "event" \notin DOMAIN p.json
            THEN [ok |-> FALSE, what |-> "type_error"]
            ELSE [ok |-> TRUE, event |-> p.json.event, data |-> p.json.data]

NoResponse == [some |-> FALSE]
Some(json) == [some |-> TRUE, json |-> json]
UnnamedEventResponse(event) ==
  [event |-> "__error__", data |-> [message |-> <<"Server has no handler bound">>]]
\* Server.cpp 176-182
MissingHandlerResponse(event) ==
  Envelope("__error__", [message |-> <<"Server has no handler bound for event: ", event>>])
\* Server.cpp 188-193
DefaultResponse == Envelope("__response__", [status |-> "success"])
\* Server.cpp 213-221
ErrorResponse(what) == Envelope("__response__", [status |-> "error", message |-> what])
\* what a handler returns when it returns a value
HandlerValue(event, data) == [handled |-> event, echo |-> data]

\* --------------------------------------------------------------- transport
NoSocket == 0
NewSocket(proto) ==
  [proto |-> proto, open |-> TRUE, closeCalls |-> 0, dials |-> 0,
   listening |-> FALSE, subscribed |-> FALSE]
IsOpen(h) == h # NoSocket /\ sock[h].open
\* nng_close
NngClose(s, h) ==
  IF h = NoSocket THEN s
  ELSE [s EXCEPT ![h].open = FALSE, ![h].listening = FALSE,
                 ![h].closeCalls = @ + 1]

NoRequest == [state |-> "none", h |-> NoSocket, by |-> "", event |-> "",
              message |-> <<>>, reply |-> <<>>, case |-> ""]
NoPending == [from |-> "none"]
IdleLoop == [pc |-> "none", h |-> NoSocket, event |-> "", data |-> "",
             response |-> NoResponse, what |-> "", received |-> FALSE, sends |-> 0,
             case |-> "", faulted |-> FALSE, joined |-> 0]
NoResult == [op |-> "none", status |-> "none", what |-> "", value |-> <<>>, io |-> 0,
             ghost |-> <<>>]
NoError == <<>>
NoLocals == [maxRetries |-> 0, attempts |-> 0, sleeps |-> 0, subFailed |-> FALSE,
             reqFailed |-> FALSE, dialed |-> FALSE, event |-> "", io |-> 0,
             h |-> NoSocket,
             acted |-> FALSE, dtor |-> FALSE]

\* --------------------------------------------------- encryption strategies
\* The strategy classes at the level of bytes.  AES and the EAX mode are
\* replaced by a small keyed cipher with the same shape: the message is the
\* nonce, then one ciphertext byte per plaintext byte, then the tag; the tag
\* depends on the key, on every byte of the nonce and on the ciphertext, so
\* that altering any single byte of a message makes the verification fail.
MaxByte == 3
MaxPlainLen == 2
NonceSize == 16
TagSize == 16
KeyLengths == {16, 24, 32}
Bytes == 0..MaxByte
PlainTexts == UNION {[1..n -> 0..1] : n \in 0..MaxPlainLen}
AesKeys == {[i \in 1..n |-> 1] : n \in KeyLengths}
\* rng.GenerateBlock(nonce, 16): one of two blocks.
Nonces == {[i \in 1..NonceSize |-> IF i = 1 THEN b ELSE 0] : b \in 0..1}
TruncatedSizes == {0, NonceSize, NonceSize + TagSize - 1}
Nothing == <<-1>>

RECURSIVE SumSeq(_)
SumSeq(s) == IF s = <<>> THEN 0 ELSE Head(s) + SumSeq(Tail(s))
Mod(n) == n % (MaxByte + 1)
KeyMix(key) == SumSeq(key) \div 8
KeyStream(key, nonce, i) == Mod(KeyMix(key) + SumSeq(nonce) + i)
EaxTag(key, nonce, cipher) ==
  [j \in 1..TagSize |-> Mod(KeyMix(key) + nonce[j] + SumSeq(cipher) + Len(cipher) + j)]
\* AuthenticatedEncryptionFilter: ciphertext, then tag.
EaxSeal(key, nonce, text) ==
  LET cipher == [i \in 1..Len(text) |-> Mod(text[i] + KeyStream(key, nonce, i))]
  IN cipher \o EaxTag(key, nonce, cipher)
EaxVerifyAlways(key, nonce, cipherText) == TRUE
\* AuthenticatedDecryptionFilter with THROW_EXCEPTION: the last TagSize bytes
\* must be the tag of what precedes them.
EaxVerify(key, nonce, cipherText) ==
  /\ Len(cipherText) >= TagSize
  /\ LET n == Len(cipherText) - TagSize
     IN SubSeq(cipherText, n + 1, Len(cipherText))
          = EaxTag(key, nonce, SubSeq(cipherText, 1, n))
EaxOpen(key, nonce, cipherText) ==
  [i \in 1..(Len(cipherText) - TagSize) |->
     Mod(cipherText[i] + (MaxByte + 1) - KeyStream(key, nonce, i))]

\* AesEaxEncryptionStrategy.cpp 24-45: nonce, then ciphertext and tag.
AesEaxEncrypt(key, nonce, text) == nonce \o EaxSeal(key, nonce, text)
TooShortOffByOne(message) == Len(message) <= NonceSize + TagSize
\* AesEaxEncryptionStrategy.cpp 51: the size check.
TooShort(message) == Len(message) < NonceSize + TagSize
\* AesEaxEncryptionStrategy.cpp 53-54, 80-81: calls made to the callback.
Compromised(callback) == IF callback THEN 1 ELSE 0
\* AesEaxEncryptionStrategy.cpp 47-87.
AesEaxDecrypt(key, callback, message) ==
  IF TooShort(message)
  THEN [done |-> TRUE, ok |-> FALSE, what |-> "Invalid size", text |-> Nothing,
        callbacks |-> Compromised(callback), attempted |-> FALSE]
  ELSE LET nonce == SubSeq(message, 1, NonceSize)
           cipherText == SubSeq(message, NonceSize + 1, Len(message))
       IN IF EaxVerify(key, nonce, cipherText)
          THEN [done |-> TRUE, ok |-> TRUE, what |-> "",
                text |-> EaxOpen(key, nonce, cipherText),
                callbacks |-> 0, attempted |-> TRUE]
          ELSE [done |-> TRUE, ok |-> FALSE, what |-> "Decryption failed",
                text |-> Nothing, callbacks |-> Compromised(callback),
                attempted |-> TRUE]
\* NoEncryptionStrategy.cpp 6-14.
NoEncryptionEncrypt(text) == text
NoEncryptionDecrypt(message) ==
  [done |-> TRUE, ok |-> TRUE, what |-> "", text |-> message, callbacks |-> 0,
   attempted |-> FALSE]

NotDecrypted == [done |-> FALSE, ok |-> FALSE, what |-> "", text |-> Nothing,
                 callbacks |-> 0, attempted |-> FALSE]
NoStrategy == [kind |-> "none", key |-> <<>>, callback |-> FALSE]
\* the strategies that can be constructed (AesEaxEncryptionStrategy.cpp 14-22
\* rejects every other key length), with and without a compromise callback.
Strategies ==
  {NoStrategy} \cup [kind : {"aes"}, key : AesKeys, callback : BOOLEAN]
\* no strategy object is exercised in this run.
NoStrategyCall ==
  /\ strategy = NoStrategy
  /\ plainText = <<>>
  /\ finalMessage = <<>>
  /\ decrypted = NotDecrypted
  /\ origin = "none"

\* The state after construction (Client.cpp 10-17, Server.cpp 13-20,
\* NngSocket.cpp 11-16) and after the encryption strategies have been set.
Constructed ==
  /\ repPending = NoPending
  /\ reqOut = NoRequest
  /\ subQueue = <<>>
  /\ peerRequests = 0
  /\ subSocket = [socket |-> NoSocket, isOpen |-> FALSE]
  /\ reqSocket = [socket |-> NoSocket, isOpen |-> FALSE]
  /\ connected = FALSE
  /\ lastSubDialError = NoError
  /\ lastReqDialError = NoError
  /\ shutdownMutex = [i \in Instances |-> "free"]
  /\ handlerMutex = [i \in Instances |-> "free"]
  /\ reqMutex = "free"
  /\ pc = [t \in Threads |-> "idle"]
  /\ loc = [t \in Threads |-> NoLocals]
  /\ ret = [t \in Threads |-> NoResult]
  /\ ops = 0
  /\ alive = [i \in Instances |-> TRUE]
  /\ terminated = FALSE

\* A run whose callers use the Server: both instances are freshly constructed.
InitServer ==
  /\ focus = "Server"
  /\ Constructed
  /\ NoStrategyCall
  /\ sock = <<>>
  /\ pubSocket = [socket |-> NoSocket, isOpen |-> FALSE]
  /\ repSocket = [socket |-> NoSocket, isOpen |-> FALSE]
  /\ isRunning = [i \in Instances |-> FALSE]
  /\ isStarted = FALSE
  /\ receiveThread = [i \in Instances |-> [joinable |-> FALSE]]
  /\ loop = [i \in Instances |-> IdleLoop]
  /\ live = [i \in Instances |-> 0]
  /\ eventHandlers = [i \in Instances |-> <<>>]
  /\ encryptionStrategy \in {f \in [Instances -> Keys] : f["Client"] = "none"}

\* A run whose callers use the Client: the Client is freshly constructed and
\* the Server is as serve() followed by on("e1", ...) leaves it.
InitClient ==
  /\ focus = "Client"
  /\ Constructed
  /\ NoStrategyCall
  /\ sock = <<[NewSocket("pub") EXCEPT !.listening = TRUE],
              [NewSocket("rep") EXCEPT !.listening = TRUE]>>
  /\ pubSocket = [socket |-> 1, isOpen |-> TRUE]
  /\ repSocket = [socket |-> 2, isOpen |-> TRUE]
  /\ isRunning = [Client |-> FALSE, Server |-> TRUE]
  /\ isStarted = TRUE
  /\ receiveThread = [Client |-> [joinable |-> FALSE], Server |-> [joinable |-> TRUE]]
  /\ loop = [Client |-> IdleLoop, Server |-> [IdleLoop EXCEPT !.pc = "top"]]
  /\ live = [Client |-> 0, Server |-> 1]
  /\ eventHandlers = [Client |-> <<>>, Server |-> [e \in {"e1"} |-> "handler"]]
  /\ encryptionStrategy \in [Instances -> Keys]

Init == InitServer \/ InitClient

\* A run with two caller threads: the Server is serving and the Client is
\* connected to it, as a successful connect() leaves them from InitClient.
InitRace ==
  /\ focus = "Race"
  /\ NoStrategyCall
  /\ repPending = NoPending
  /\ reqOut = NoRequest
  /\ subQueue = <<>>
  /\ peerRequests = 0
  /\ lastSubDialError = NoError
  /\ lastReqDialError = NoError
  /\ shutdownMutex = [i \in Instances |-> "free"]
  /\ handlerMutex = [i \in Instances |-> "free"]
  /\ reqMutex = "free"
  /\ pc = [t \in Threads |-> "idle"]
  /\ loc = [t \in Threads |-> NoLocals]
  /\ ret = [t \in Threads |-> NoResult]
  /\ ops = 0
  /\ alive = [i \in Instances |-> TRUE]
  /\ terminated = FALSE
  /\ sock = <<[NewSocket("pub") EXCEPT !.listening = TRUE],
              [NewSocket("rep") EXCEPT !.listening = TRUE],
              [NewSocket("sub") EXCEPT !.dials = 1, !.subscribed = TRUE],
              [NewSocket("req") EXCEPT !.dials = 1]>>
  /\ pubSocket = [socket |-> 1, isOpen |-> TRUE]
  /\ repSocket = [socket |-> 2, isOpen |-> TRUE]
  /\ subSocket = [socket |-> 3, isOpen |-> TRUE]
  /\ reqSocket = [socket |-> 4, isOpen |-> TRUE]
  /\ isRunning = [i \in Instances |-> TRUE]
  /\ isStarted = TRUE
  /\ connected = TRUE
  /\ receiveThread = [i \in Instances |-> [joinable |-> TRUE]]
  /\ loop = [i \in Instances |-> [IdleLoop EXCEPT !.pc = "top"]]
  /\ live = [i \in Instances |-> 1]
  /\ eventHandlers = [Client |-> <<>>, Server |-> [e \in {"e1"} |-> "handler"]]
  /\ encryptionStrategy \in [Instances -> Keys]

\* ------------------------------------------------------------ caller threads
ClientPcs == {"connect_open_sub", "connect_mark_sub", "connect_open_req",
              "connect_mark_req", "connect_dial_sub", "connect_dial_req",
              "connect_throw", "connect_setopt",
              "connect_set_running", "connect_spawn", "connect_set_connected",
              "cshutdown_lock", "cshutdown_check", "cshutdown_flag",
              "cshutdown_close_sub", "cshutdown_close_req", "cshutdown_join",
              "cshutdown_unflag", "cdtor_thread", "cdtor_req", "cdtor_sub", "con_lock",
              "emit_check", "emit_lock", "emit_send", "emit_recv"}
ServerPcs == {"serve_open_pub", "serve_mark_pub", "serve_open_rep", "serve_mark_rep",
              "serve_listen_pub", "serve_listen_rep", "serve_set_running",
              "serve_spawn", "serve_set_started",
              "sshutdown_lock", "sshutdown_check", "sshutdown_flag",
              "sshutdown_close_pub", "sshutdown_close_rep", "sshutdown_join",
              "sshutdown_unflag", "sdtor_thread", "sdtor_rep", "sdtor_pub", "son_lock",
              "semit_check", "semit_send"}
InCall(t, i) == pc[t] \in (IF i = "Client" THEN ClientPcs ELSE ServerPcs)

\* A thread takes its step at p; after std::terminate no thread takes any.
At(t, p) == ~terminated /\ pc[t] = p
LoopAt(i, p) == ~terminated /\ loop[i].pc = p

\* Caller threads keep nothing between calls, so they are interchangeable: a
\* call that starts while no other is in progress is made by t1.  Only a run
\* of SpecRace has a second caller.
MayCall(t) == t = "t1" \/ (focus = "Race" /\ pc["t1"] # "idle")
Budget == IF focus = "Race" THEN MaxRaceOps ELSE MaxOps

\* A caller thread enters a member function of instance i.
Begin(t, i, first, locals) ==
  /\ At(t, "idle")
  /\ MayCall(t)
  /\ focus \in {i, "Race"} \/ first = "semit_check"
  /\ alive[i]
  /\ \A u \in Threads : ~(InCall(u, i) /\ loc[u].dtor)
  /\ ops < Budget
  /\ ops' = ops + 1
  /\ pc' = [pc EXCEPT ![t] = first]
  /\ loc' = [loc EXCEPT ![t] = locals]
  /\ ret' = [ret EXCEPT ![t] = NoResult]
  /\ UNCHANGED <<alive, runVars>>
Goto(t, next) ==
  /\ pc' = [pc EXCEPT ![t] = next]
  /\ UNCHANGED <<loc, ret, ops, alive, runVars>>
GotoWith(t, next, locals) ==
  /\ pc' = [pc EXCEPT ![t] = next]
  /\ loc' = [loc EXCEPT ![t] = locals]
  /\ UNCHANGED <<ret, ops, alive, runVars>>
\* The call returns (status "ok") or throws (status "error").
Return(t, op, status, what, value) ==
  /\ pc' = [pc EXCEPT ![t] = "idle"]
  /\ ret' = [ret EXCEPT ![t] = [op |-> op, status |-> status, what |-> what,
                                value |-> value, io |-> loc[t].io, ghost |-> <<>>]]
  /\ loc' = [loc EXCEPT ![t] = NoLocals]
  /\ UNCHANGED <<ops, alive, runVars>>

\* ------------------------------------------------------------ Server::serve
ServeBegin(t) ==
  /\ Begin(t, "Server", "serve_open_pub", NoLocals)
  /\ UNCHANGED <<netVars, sockVars, flagVars, threadVars, confVars, errVars,
                 lockVars, terminated>>

\* Server.cpp 31-34: nng_pub0_open
ServeOpenPub(t) ==
  /\ At(t, "serve_open_pub")
  /\ \/ /\ sock' = Append(sock, NewSocket("pub"))
        /\ pubSocket' = [pubSocket EXCEPT !.socket = Len(sock) + 1]
        /\ Goto(t, "serve_mark_pub")
     \/ /\ Return(t, "serve", "error", "Failed to open PUB socket", <<>>)
        /\ UNCHANGED <<sock, pubSocket>>
  /\ UNCHANGED <<repPending, reqOut, subQueue, peerRequests, subSocket, reqSocket,
                 repSocket, flagVars, threadVars, confVars, errVars, lockVars,
                 terminated>>

\* Server.cpp 36: pubSocket->markOpen()
ServeMarkPub(t) ==
  /\ At(t, "serve_mark_pub")
  /\ pubSocket' = [pubSocket EXCEPT !.isOpen = TRUE]
  /\ Goto(t, "serve_open_rep")
  /\ UNCHANGED <<netVars, subSocket, reqSocket, repSocket, flagVars, threadVars,
                 confVars, errVars, lockVars, terminated>>

\* Server.cpp 38-41: nng_rep0_open
ServeOpenRep(t) ==
  /\ At(t, "serve_open_rep")
  /\ \/ /\ sock' = Append(sock, NewSocket("rep"))
        /\ repSocket' = [repSocket EXCEPT !.socket = Len(sock) + 1]
        /\ Goto(t, "serve_mark_rep")
     \/ /\ Return(t, "serve", "error", "Failed to open REP socket", <<>>)
        /\ UNCHANGED <<sock, repSocket>>
  /\ UNCHANGED <<repPending, reqOut, subQueue, peerRequests, subSocket, reqSocket,
                 pubSocket, flagVars, threadVars, confVars, errVars, lockVars,
                 terminated>>

\* Server.cpp 43: repSocket->markOpen()
ServeMarkRep(t) ==
  /\ At(t, "serve_mark_rep")
  /\ repSocket' = [repSocket EXCEPT !.isOpen = TRUE]
  /\ Goto(t, "serve_listen_pub")
  /\ UNCHANGED <<netVars, subSocket, reqSocket, pubSocket, flagVars, threadVars,
                 confVars, errVars, lockVars, terminated>>

\* nng_listen on handle h: it fails on a closed handle, and may fail otherwise
\* (address in use).
NngListen(t, h, next, failure) ==
  \/ /\ IsOpen(h)
     /\ sock' = [sock EXCEPT ![h].listening = TRUE]
     /\ Goto(t, next)
  \/ /\ Return(t, "serve", "error", failure, <<>>)
     /\ UNCHANGED sock

\* Server.cpp 51-54
ServeListenPub(t) ==
  /\ At(t, "serve_listen_pub")
  /\ NngListen(t, pubSocket.socket, "serve_listen_rep", "Failed to listen on PUB socket")
  /\ UNCHANGED <<repPending, reqOut, subQueue, peerRequests, sockVars, flagVars,
                 threadVars, confVars, errVars, lockVars, terminated>>

\* Server.cpp 56-59
ServeListenRep(t) ==
  /\ At(t, "serve_listen_rep")
  /\ NngListen(t, repSocket.socket, "serve_set_running", "Failed to listen on REP socket")
  /\ UNCHANGED <<repPending, reqOut, subQueue, peerRequests, sockVars, flagVars,
                 threadVars, confVars, errVars, lockVars, terminated>>

\* Server.cpp 61: isRunning = true
ServeSetRunning(t) ==
  /\ At(t, "serve_set_running")
  /\ isRunning' = [isRunning EXCEPT !["Server"] = TRUE]
  /\ Goto(t, "serve_spawn")
  /\ UNCHANGED <<netVars, sockVars, connected, isStarted, threadVars, confVars,
                 errVars, lockVars, terminated>>

\* receiveThread = std::thread(&receiveLoop, this): the new thread starts, and
\* move-assigning to a std::thread that is still joinable calls std::terminate.
SpawnReceiveThread(i) ==
  /\ live' = [live EXCEPT ![i] = @ + 1]
  /\ IF receiveThread[i].joinable
     THEN /\ terminated' = TRUE
          /\ UNCHANGED <<receiveThread, loop>>
     ELSE /\ receiveThread' = [receiveThread EXCEPT ![i] = [joinable |-> TRUE]]
          /\ loop' = [loop EXCEPT ![i] = [IdleLoop EXCEPT !.pc = "top"]]
          /\ UNCHANGED terminated

\* Server.cpp 62
ServeSpawn(t) ==
  /\ At(t, "serve_spawn")
  /\ SpawnReceiveThread("Server")
  /\ Goto(t, "serve_set_started")
  /\ UNCHANGED <<netVars, sockVars, flagVars, confVars, errVars, lockVars>>

\* Server.cpp 63-66: isStarted = true
ServeSetStarted(t) ==
  /\ At(t, "serve_set_started")
  /\ isStarted' = TRUE
  /\ Return(t, "serve", "ok", "", <<>>)
  /\ UNCHANGED <<netVars, sockVars, isRunning, connected, threadVars, confVars,
                 errVars, lockVars, terminated>>

\* ---------------------------------------------------------------- NngSocket
CloseUnguarded(w) == TRUE
\* NngSocket.cpp 52: close() acts only on a handle marked open.
CloseGuard(w) == w.isOpen
\* NngSocket.cpp 50-57: the wrapper after close()
NngSocketClose(w) == [w EXCEPT !.isOpen = FALSE]
\* NngSocket.cpp 54: nng_close(socket), which also drops what the transport
\* holds for that handle (the outstanding request, the queued broadcasts).
TransportClose(w) ==
  IF CloseGuard(w)
  THEN /\ sock' = NngClose(sock, w.socket)
       /\ reqOut' = IF reqOut.h = w.socket THEN NoRequest ELSE reqOut
       /\ subQueue' = IF w.socket # NoSocket /\ sock[w.socket].proto = "sub"
                      THEN <<>> ELSE subQueue
       /\ repPending' = IF w.socket # NoSocket /\ sock[w.socket].proto = "rep"
                        THEN NoPending ELSE repPending
  ELSE UNCHANGED <<sock, reqOut, subQueue, repPending>>

\* --------------------------------------------------------- Server::shutdown
ServerShutdownBegin(t) ==
  /\ Begin(t, "Server", "sshutdown_lock", NoLocals)
  /\ UNCHANGED <<netVars, sockVars, flagVars, threadVars, confVars, errVars,
                 lockVars, terminated>>

\* Server.cpp 22-25: ~Server() calls shutdown() and then destroys the members.
\* No other call may be inside an object that is being destroyed.
ServerDestroyBegin(t) ==
  /\ \A u \in Threads : ~InCall(u, "Server")
  /\ Begin(t, "Server", "sshutdown_lock", [NoLocals EXCEPT !.dtor = TRUE])
  /\ UNCHANGED <<netVars, sockVars, flagVars, threadVars, confVars, errVars,
                 lockVars, terminated>>

\* Server.cpp 71: std::lock_guard lock(shutdownMutex)
ServerShutdownLock(t) ==
  /\ At(t, "sshutdown_lock")
  /\ shutdownMutex["Server"] = "free"
  /\ shutdownMutex' = [shutdownMutex EXCEPT !["Server"] = t]
  /\ Goto(t, "sshutdown_check")
  /\ UNCHANGED <<netVars, sockVars, flagVars, threadVars, confVars, errVars,
                 handlerMutex, reqMutex, terminated>>

\* Server.cpp 73: if (isRunning)
ServerShutdownGuard == isRunning["Server"]

\* Server.cpp 73, 86: not running: unlock and return
ServerShutdownCheck(t) ==
  /\ At(t, "sshutdown_check")
  /\ IF ServerShutdownGuard
     THEN /\ Goto(t, "sshutdown_flag")
          /\ UNCHANGED shutdownMutex
     ELSE /\ shutdownMutex' = [shutdownMutex EXCEPT !["Server"] = "free"]
          /\ IF loc[t].dtor THEN Goto(t, "sdtor_thread")
             ELSE Return(t, "shutdown", "ok", "", <<>>)
  /\ UNCHANGED <<netVars, sockVars, flagVars, threadVars, confVars, errVars,
                 handlerMutex, reqMutex, terminated>>

\* Server.cpp 75: isRunning = false
ServerShutdownFlag(t) ==
  /\ At(t, "sshutdown_flag")
  /\ isRunning' = [isRunning EXCEPT !["Server"] = FALSE]
  /\ GotoWith(t, "sshutdown_close_pub", [loc[t] EXCEPT !.acted = TRUE])
  /\ UNCHANGED <<netVars, sockVars, connected, isStarted, threadVars, confVars,
                 errVars, lockVars, terminated>>

\* Server.cpp 76: pubSocket->close()
ServerShutdownClosePub(t) ==
  /\ At(t, "sshutdown_close_pub")
  /\ TransportClose(pubSocket)
  /\ pubSocket' = NngSocketClose(pubSocket)
  /\ Goto(t, "sshutdown_close_rep")
  /\ UNCHANGED <<peerRequests, subSocket, reqSocket, repSocket, flagVars,
                 threadVars, confVars, errVars, lockVars, terminated>>

\* Server.cpp 77: repSocket->close()
ServerShutdownCloseRep(t) ==
  /\ At(t, "sshutdown_close_rep")
  /\ TransportClose(repSocket)
  /\ repSocket' = NngSocketClose(repSocket)
  /\ Goto(t, "sshutdown_join")
  /\ UNCHANGED <<peerRequests, subSocket, reqSocket, pubSocket, flagVars,
                 threadVars, confVars, errVars, lockVars, terminated>>

\* if (receiveThread.joinable()) receiveThread.join(): join returns once the
\* thread function has returned.
JoinReceiveThread(i) ==
  IF receiveThread[i].joinable
  THEN /\ loop[i].pc = "exited"
       /\ receiveThread' = [receiveThread EXCEPT ![i] = [joinable |-> FALSE]]
       /\ loop' = [loop EXCEPT ![i].joined = @ + 1]
  ELSE UNCHANGED <<receiveThread, loop>>

\* Server.cpp 79-82
ServerShutdownJoin(t) ==
  /\ At(t, "sshutdown_join")
  /\ JoinReceiveThread("Server")
  /\ Goto(t, "sshutdown_unflag")
  /\ UNCHANGED <<netVars, sockVars, flagVars, live, confVars, errVars, lockVars,
                 terminated>>

\* Server.cpp 84-86: isStarted = false, unlock, return
ServerShutdownUnflag(t) ==
  /\ At(t, "sshutdown_unflag")
  /\ isStarted' = FALSE
  /\ shutdownMutex' = [shutdownMutex EXCEPT !["Server"] = "free"]
  /\ IF loc[t].dtor THEN Goto(t, "sdtor_thread")
     ELSE Return(t, "shutdown", "ok", "", <<>>)
  /\ UNCHANGED <<netVars, sockVars, isRunning, connected, threadVars, confVars,
                 errVars, handlerMutex, reqMutex, terminated>>

\* ~std::thread: a thread object destroyed while joinable calls std::terminate.
DestroyReceiveThread(i) ==
  terminated' = receiveThread[i].joinable

\* Server.cpp 22-25: member destruction, receiveThread
ServerDestroyThread(t) ==
  /\ At(t, "sdtor_thread")
  /\ DestroyReceiveThread("Server")
  /\ Goto(t, "sdtor_rep")
  /\ UNCHANGED <<netVars, sockVars, flagVars, threadVars, confVars, errVars, lockVars>>

\* NngSocket.cpp 6-9: ~NngSocket of repSocket
ServerDestroyRep(t) ==
  /\ At(t, "sdtor_rep")
  /\ TransportClose(repSocket)
  /\ repSocket' = NngSocketClose(repSocket)
  /\ Goto(t, "sdtor_pub")
  /\ UNCHANGED <<peerRequests, subSocket, reqSocket, pubSocket, flagVars,
                 threadVars, confVars, errVars, lockVars, terminated>>

\* NngSocket.cpp 6-9: ~NngSocket of pubSocket; the Server is gone
ServerDestroyPub(t) ==
  /\ At(t, "sdtor_pub")
  /\ TransportClose(pubSocket)
  /\ pubSocket' = NngSocketClose(pubSocket)
  /\ pc' = [pc EXCEPT ![t] = "idle"]
  /\ ret' = [ret EXCEPT ![t] = [NoResult EXCEPT !.op = "destroy", !.status = "ok"]]
  /\ loc' = [loc EXCEPT ![t] = NoLocals]
  /\ alive' = [alive EXCEPT !["Server"] = FALSE]
  /\ UNCHANGED <<ops, runVars>>
  /\ UNCHANGED <<peerRequests, subSocket, reqSocket, repSocket, flagVars,
                 threadVars, confVars, errVars, lockVars, terminated>>

\* -------------------------------------------------------------- Server::on
\* on(event, handler): eventHandlers[event] = handler under handlerMutex
ServerOnBegin(t) ==
  /\ \E e \in Events : Begin(t, "Server", "son_lock", [NoLocals EXCEPT !.event = e])
  /\ UNCHANGED <<netVars, sockVars, flagVars, threadVars, confVars, errVars,
                 lockVars, terminated>>

ServerOn(t) ==
  /\ At(t, "son_lock")
  /\ handlerMutex["Server"] = "free"
  /\ eventHandlers' = [eventHandlers EXCEPT !["Server"] =
                         [e \in DOMAIN @ \cup {loc[t].event} |-> "handler"]]
  /\ Return(t, "on", "ok", "", <<>>)
  /\ UNCHANGED <<netVars, sockVars, flagVars, threadVars, encryptionStrategy,
                 errVars, lockVars, terminated>>

\* ------------------------------------------------------------ Server::emit
ServerEmitBegin(t) ==
  /\ \E e \in Events : Begin(t, "Server", "semit_check", [NoLocals EXCEPT !.event = e])
  /\ UNCHANGED <<netVars, sockVars, flagVars, threadVars, confVars, errVars,
                 lockVars, terminated>>

\* Server.cpp 90: if (!isStarted)
ServerEmitGuard == ~isStarted

\* Server.cpp 90-93
ServerEmitCheck(t) ==
  /\ At(t, "semit_check")
  /\ IF ServerEmitGuard
     THEN Return(t, "emit", "error", "Server is not started", <<>>)
     ELSE Goto(t, "semit_send")
  /\ UNCHANGED <<netVars, sockVars, flagVars, threadVars, confVars, errVars,
                 lockVars, terminated>>

\* PUB delivery: to the Client's SUB socket when it is open, dialed and
\* subscribed; a full queue drops the message.
Subscribed ==
  /\ IsOpen(subSocket.socket)
  /\ sock[subSocket.socket].dials > 0
  /\ sock[subSocket.socket].subscribed
Publish(message) ==
  IF Subscribed /\ Len(subQueue) < MaxQueue
  THEN Append(subQueue, message) ELSE subQueue

\* Server.cpp 95-111: dump, encrypt, nng_send on the PUB socket
ServerEmitSend(t) ==
  /\ At(t, "semit_send")
  /\ LET message == Encrypt(encryptionStrategy["Server"],
                            Dump(Envelope(loc[t].event, "broadcast")))
     IN IF IsOpen(pubSocket.socket)
        THEN /\ subQueue' = Publish(message)
             /\ ret' = [ret EXCEPT ![t] = [NoResult EXCEPT !.op = "emit", !.status = "ok",
                                                          !.io = loc[t].io + 1]]
        ELSE /\ UNCHANGED subQueue
             /\ ret' = [ret EXCEPT ![t] = [NoResult EXCEPT !.op = "emit",
                           !.status = "error", !.what = "Failed to send message",
                           !.io = loc[t].io + 1]]
  /\ pc' = [pc EXCEPT ![t] = "idle"]
  /\ loc' = [loc EXCEPT ![t] = NoLocals]
  /\ UNCHANGED <<ops, alive, runVars>>
  /\ UNCHANGED <<sock, repPending, reqOut, peerRequests, sockVars, flagVars,
                 threadVars, confVars, errVars, lockVars, terminated>>

\* ----------------------------------------------------- Server::receiveLoop
\* the thread function returns
LoopExit(i) ==
  /\ loop' = [loop EXCEPT ![i].pc = "exited"]
  /\ live' = [live EXCEPT ![i] = @ - 1]

\* Server.cpp 129: while (isRunning)
ServerLoopTop ==
  /\ LoopAt("Server", "top")
  /\ IF isRunning["Server"]
     THEN /\ loop' = [loop EXCEPT !["Server"].pc = "recv",
                                  !["Server"].h = repSocket.socket]
          /\ UNCHANGED live
     ELSE LoopExit("Server")
  /\ UNCHANGED <<netVars, sockVars, flagVars, receiveThread, confVars, errVars,
                 lockVars, callVars, terminated>>

\* Server.cpp 133-136: nng_recv returns NNG_ECLOSED
ServerRecvClosed ==
  /\ LoopAt("Server", "recv")
  /\ ~IsOpen(loop["Server"].h)
  /\ LoopExit("Server")
  /\ UNCHANGED <<netVars, sockVars, flagVars, receiveThread, confVars, errVars,
                 lockVars, callVars, terminated>>

ServerRecvErrorBreaks ==
  /\ LoopAt("Server", "recv")
  /\ IsOpen(loop["Server"].h)
  /\ LoopExit("Server")
  /\ UNCHANGED <<netVars, sockVars, flagVars, receiveThread, confVars, errVars,
                 lockVars, callVars, terminated>>

\* Server.cpp 137-141: nng_recv returns another error: continue
ServerRecvError ==
  /\ LoopAt("Server", "recv")
  /\ IsOpen(loop["Server"].h)
  /\ loop' = [loop EXCEPT !["Server"].pc = "top"]
  /\ UNCHANGED <<netVars, sockVars, flagVars, receiveThread, live, confVars, errVars,
                 lockVars, callVars, terminated>>

\* what peers other than the modelled Client may send
PeerMessages ==
  {Encrypt(k, Dump(Envelope(e, "peer"))) : k \in Keys \cup {"k2"}, e \in Events}
    \cup {<<"garbage">>, Dump([unrelated |-> "object"])}

\* Server.cpp 143-163: handleRequest(message) starts: decrypt, parse, event,
\* data; a failure throws into the catch clause
TakeRequest(message) ==
  LET r == DecodeEnvelope(encryptionStrategy["Server"], message)
      l == [loop["Server"] EXCEPT !.received = TRUE, !.sends = 0, !.case = ""]
  IN IF r.ok
     THEN loop' = [loop EXCEPT !["Server"] =
                     [l EXCEPT !.pc = "lock", !.event = r.event, !.data = r.data]]
     ELSE loop' = [loop EXCEPT !["Server"] =
                     [l EXCEPT !.pc = "catch", !.what = r.what, !.case = "undecodable"]]

\* Server.cpp 133-146: nng_recv returns the Client's request
ServerRecvClient ==
  /\ LoopAt("Server", "recv")
  /\ IsOpen(loop["Server"].h) /\ sock[loop["Server"].h].listening
  /\ reqOut.state = "wire"
  /\ IsOpen(reqOut.h) /\ sock[reqOut.h].dials > 0
  /\ reqOut' = [reqOut EXCEPT !.state = "server"]
  /\ repPending' = [from |-> "client", h |-> reqOut.h, by |-> reqOut.by]
  /\ TakeRequest(reqOut.message)
  /\ UNCHANGED <<sock, subQueue, peerRequests, sockVars, flagVars, receiveThread,
                 live, confVars, errVars, lockVars, callVars, terminated>>

\* Server.cpp 133-146: nng_recv returns a request of another peer
ServerRecvPeer ==
  /\ LoopAt("Server", "recv")
  /\ IsOpen(loop["Server"].h) /\ sock[loop["Server"].h].listening
  /\ focus # "Client"
  /\ peerRequests < MaxPeerRequests
  /\ peerRequests' = peerRequests + 1
  /\ repPending' = [from |-> "peer", h |-> NoSocket, by |-> "peer"]
  /\ \E message \in PeerMessages : TakeRequest(message)
  /\ UNCHANGED <<sock, reqOut, subQueue, sockVars, flagVars, receiveThread,
                 live, confVars, errVars, lockVars, callVars, terminated>>

\* --------------------------------------------------- Server::handleRequest
\* Server.cpp 168: std::lock_guard lock(handlerMutex)
HandleRequestLock ==
  /\ LoopAt("Server", "lock")
  /\ handlerMutex["Server"] = "free"
  /\ handlerMutex' = [handlerMutex EXCEPT !["Server"] = "sloop"]
  /\ loop' = [loop EXCEPT !["Server"].pc = "dispatch"]
  /\ UNCHANGED <<netVars, sockVars, flagVars, receiveThread, live, confVars, errVars,
                 shutdownMutex, reqMutex, callVars, terminated>>

\* Server.cpp 209: catch (std::exception&) catches only what derives from it
Caught(outcome) == outcome = "throws_std"

\* Server.cpp 169-184: call the handler, or synthesize the missing-handler
\* response; the lock_guard's scope ends either way.  An exception the catch
\* clause does not match leaves the thread function: std::terminate.
HandleRequestDispatch ==
  /\ LoopAt("Server", "dispatch")
  /\ LET l == loop["Server"] IN
     IF l.event \in DOMAIN eventHandlers["Server"]
     THEN \E outcome \in HandlerOutcomes :
            CASE outcome = "value" ->
                   /\ loop' = [loop EXCEPT !["Server"].pc = "send",
                                 !["Server"].case = "value",
                                 !["Server"].response = Some(HandlerValue(l.event, l.data))]
                   /\ handlerMutex' = [handlerMutex EXCEPT !["Server"] = "free"]
                   /\ UNCHANGED terminated
              [] outcome = "nothing" ->
                   /\ loop' = [loop EXCEPT !["Server"].pc = "send",
                                 !["Server"].case = "nothing",
                                 !["Server"].response = NoResponse]
                   /\ handlerMutex' = [handlerMutex EXCEPT !["Server"] = "free"]
                   /\ UNCHANGED terminated
              [] OTHER ->
                   IF Caught(outcome)
                   THEN /\ loop' = [loop EXCEPT !["Server"].pc = "catch",
                                      !["Server"].case = "threw",
                                      !["Server"].faulted = TRUE,
                                      !["Server"].what = "handler failure"]
                        /\ handlerMutex' = [handlerMutex EXCEPT !["Server"] = "free"]
                        /\ UNCHANGED terminated
                   ELSE /\ loop' = [loop EXCEPT !["Server"].pc = "aborted",
                                      !["Server"].case = "threw"]
                        /\ terminated' = TRUE
                        /\ UNCHANGED handlerMutex
     ELSE /\ loop' = [loop EXCEPT !["Server"].pc = "send",
                        !["Server"].case = "missing",
                        !["Server"].response = Some(MissingHandlerResponse(l.event))]
          /\ handlerMutex' = [handlerMutex EXCEPT !["Server"] = "free"]
          /\ UNCHANGED terminated
  /\ UNCHANGED <<netVars, sockVars, flagVars, receiveThread, live, confVars, errVars,
                 shutdownMutex, reqMutex, callVars>>

\* nng_send on the REP socket: it fails on a closed handle and when no request
\* awaits a reply; otherwise the reply goes to the requester, and reaches the
\* Client when that request is still the one its REQ socket waits for.
RepSend(message) ==
  /\ loop' = [loop EXCEPT !["Server"].pc = "top", !["Server"].sends = @ + 1,
                          !["Server"].case = "",
                          !["Server"].response = NoResponse, !["Server"].what = "",
                          !["Server"].event = "", !["Server"].data = ""]
  /\ IF IsOpen(repSocket.socket) /\ repPending.from # "none"
     THEN /\ repPending' = NoPending
          /\ reqOut' = IF /\ repPending.from = "client"
                          /\ reqOut.state = "server"
                          /\ reqOut.h = repPending.h /\ reqOut.by = repPending.by
                       THEN [reqOut EXCEPT !.state = "replied", !.reply = message,
                                           !.case = loop["Server"].case]
                       ELSE reqOut
     ELSE UNCHANGED <<repPending, reqOut>>

\* Server.cpp 186-207: value_or(default), dump, encrypt, send
HandleRequestSend ==
  /\ LoopAt("Server", "send")
  /\ LET l == loop["Server"]
         responseJson == IF l.response.some THEN l.response.json ELSE DefaultResponse
     IN RepSend(Encrypt(encryptionStrategy["Server"], Dump(responseJson)))
  /\ UNCHANGED <<sock, subQueue, peerRequests, sockVars, flagVars, receiveThread,
                 live, confVars, errVars, lockVars, callVars, terminated>>

\* Server.cpp 209-235: the error response, dump, encrypt, send
HandleRequestCatch ==
  /\ LoopAt("Server", "catch")
  /\ RepSend(Encrypt(encryptionStrategy["Server"],
                     Dump(ErrorResponse(loop["Server"].what))))
  /\ UNCHANGED <<sock, subQueue, peerRequests, sockVars, flagVars, receiveThread,
                 live, confVars, errVars, lockVars, callVars, terminated>>

\* ---------------------------------------------------------- Client::connect
ConnectBegin(t) ==
  /\ \E maxRetries \in 0..MaxRetries :
       Begin(t, "Client", "connect_open_sub", [NoLocals EXCEPT !.maxRetries = maxRetries])
  /\ UNCHANGED <<netVars, sockVars, flagVars, threadVars, confVars, errVars,
                 lockVars, terminated>>

\* Client.cpp 29-32: nng_sub0_open
ConnectOpenSub(t) ==
  /\ At(t, "connect_open_sub")
  /\ \/ /\ sock' = Append(sock, NewSocket("sub"))
        /\ subSocket' = [subSocket EXCEPT !.socket = Len(sock) + 1]
        /\ Goto(t, "connect_mark_sub")
     \/ /\ Return(t, "connect", "error", "Failed to open SUB socket", <<>>)
        /\ UNCHANGED <<sock, subSocket>>
  /\ UNCHANGED <<repPending, reqOut, subQueue, peerRequests, reqSocket, pubSocket,
                 repSocket, flagVars, threadVars, confVars, errVars, lockVars,
                 terminated>>

\* Client.cpp 34: subSocket.markOpen()
ConnectMarkSub(t) ==
  /\ At(t, "connect_mark_sub")
  /\ subSocket' = [subSocket EXCEPT !.isOpen = TRUE]
  /\ Goto(t, "connect_open_req")
  /\ UNCHANGED <<netVars, reqSocket, pubSocket, repSocket, flagVars, threadVars,
                 confVars, errVars, lockVars, terminated>>

\* Client.cpp 37-40: nng_req0_open
ConnectOpenReq(t) ==
  /\ At(t, "connect_open_req")
  /\ \/ /\ sock' = Append(sock, NewSocket("req"))
        /\ reqSocket' = [reqSocket EXCEPT !.socket = Len(sock) + 1]
        /\ Goto(t, "connect_mark_req")
     \/ /\ Return(t, "connect", "error", "Failed to open REQ socket", <<>>)
        /\ UNCHANGED <<sock, reqSocket>>
  /\ UNCHANGED <<repPending, reqOut, subQueue, peerRequests, subSocket, pubSocket,
                 repSocket, flagVars, threadVars, confVars, errVars, lockVars,
                 terminated>>

RetryGuardOffByOne(attempts, maxRetries) == attempts <= maxRetries
\* Client.cpp 51: while (attempts < maxRetries)
RetryGuard(attempts, maxRetries) == attempts < maxRetries

\* Client.cpp 42-51: reqSocket.markOpen(); attempts = 0; enter the retry loop
ConnectMarkReq(t) ==
  /\ At(t, "connect_mark_req")
  /\ reqSocket' = [reqSocket EXCEPT !.isOpen = TRUE]
  /\ Goto(t, IF RetryGuard(0, loc[t].maxRetries) THEN "connect_dial_sub"
             ELSE "connect_throw")
  /\ UNCHANGED <<netVars, subSocket, pubSocket, repSocket, flagVars, threadVars,
                 confVars, errVars, lockVars, terminated>>

\* nng_dial succeeds only when its handle is open and an endpoint of the peer
\* protocol is listening.
Listening(proto) ==
  \E h \in 1..Len(sock) : sock[h].proto = proto /\ sock[h].open /\ sock[h].listening
CanDial(h, proto) == IsOpen(h) /\ Listening(proto)
\* the text of the failure of the given attempt
DialError(attempt) == <<"dial failed in attempt", attempt>>

\* Client.cpp 74-78: ++attempts; sleep retryDelayMS if another attempt follows
AfterFailedAttempt(l) ==
  LET n == l.attempts + 1 IN
  [l EXCEPT !.attempts = n,
            !.sleeps = IF RetryGuard(n, l.maxRetries) THEN @ + 1 ELSE @]
NextAttemptPc(l) ==
  IF RetryGuard(l.attempts, l.maxRetries) THEN "connect_dial_sub" ELSE "connect_throw"

\* Client.cpp 53-54, 68-78: nng_dial on the SUB socket
ConnectDialSub(t) ==
  /\ At(t, "connect_dial_sub")
  /\ \/ /\ CanDial(subSocket.socket, "pub")
        /\ sock' = [sock EXCEPT ![subSocket.socket].dials = @ + 1]
        /\ GotoWith(t, "connect_dial_req", [loc[t] EXCEPT !.dialed = TRUE])
        /\ UNCHANGED lastSubDialError
     \/ /\ lastSubDialError' = DialError(loc[t].attempts + 1)
        /\ LET l == AfterFailedAttempt([loc[t] EXCEPT !.subFailed = TRUE])
           IN GotoWith(t, NextAttemptPc(l), l)
        /\ UNCHANGED sock
  /\ UNCHANGED <<repPending, reqOut, subQueue, peerRequests, sockVars, flagVars,
                 threadVars, confVars, lastReqDialError, lockVars, terminated>>

\* Client.cpp 56-66, 74-78: nng_dial on the REQ socket
ConnectDialReq(t) ==
  /\ At(t, "connect_dial_req")
  /\ \/ /\ CanDial(reqSocket.socket, "rep")
        /\ sock' = [sock EXCEPT ![reqSocket.socket].dials = @ + 1]
        /\ Goto(t, "connect_setopt")
        /\ UNCHANGED lastReqDialError
     \/ /\ lastReqDialError' = DialError(loc[t].attempts + 1)
        /\ LET l == AfterFailedAttempt([loc[t] EXCEPT !.reqFailed = TRUE])
           IN GotoWith(t, NextAttemptPc(l), l)
        /\ UNCHANGED sock
  /\ UNCHANGED <<repPending, reqOut, subQueue, peerRequests, sockVars, flagVars,
                 threadVars, confVars, lastSubDialError, lockVars, terminated>>

\* Client.cpp 83-90: the error after the retries are used up
ConnectError(maxRetries) ==
  [retries |-> maxRetries, sub |-> lastSubDialError, req |-> lastReqDialError]

\* Client.cpp 81-91: if (!connectSuccess) throw
ConnectThrow(t) ==
  /\ At(t, "connect_throw")
  /\ pc' = [pc EXCEPT ![t] = "idle"]
  /\ ret' = [ret EXCEPT ![t] =
               [op |-> "connect", status |-> "error", what |-> "Failed to connect",
                value |-> ConnectError(loc[t].maxRetries), io |-> 0,
                ghost |-> loc[t]]]
  /\ loc' = [loc EXCEPT ![t] = NoLocals]
  /\ UNCHANGED <<ops, alive, runVars>>
  /\ UNCHANGED <<netVars, sockVars, flagVars, threadVars, confVars, errVars,
                 lockVars, terminated>>

\* Client.cpp 93-96: nng_setopt(NNG_OPT_SUB_SUBSCRIBE, "")
ConnectSetopt(t) ==
  /\ At(t, "connect_setopt")
  /\ \/ /\ IsOpen(subSocket.socket)
        /\ sock' = [sock EXCEPT ![subSocket.socket].subscribed = TRUE]
        /\ Goto(t, "connect_set_running")
     \/ /\ Return(t, "connect", "error", "Failed to set subscribe option", <<>>)
        /\ UNCHANGED sock
  /\ UNCHANGED <<repPending, reqOut, subQueue, peerRequests, sockVars, flagVars,
                 threadVars, confVars, errVars, lockVars, terminated>>

\* Client.cpp 98: isRunning = true
ConnectSetRunning(t) ==
  /\ At(t, "connect_set_running")
  /\ isRunning' = [isRunning EXCEPT !["Client"] = TRUE]
  /\ Goto(t, "connect_spawn")
  /\ UNCHANGED <<netVars, sockVars, connected, isStarted, threadVars, confVars,
                 errVars, lockVars, terminated>>

\* Client.cpp 99
ConnectSpawn(t) ==
  /\ At(t, "connect_spawn")
  /\ SpawnReceiveThread("Client")
  /\ Goto(t, "connect_set_connected")
  /\ UNCHANGED <<netVars, sockVars, flagVars, confVars, errVars, lockVars>>

\* Client.cpp 100-103: connected = true
ConnectSetConnected(t) ==
  /\ At(t, "connect_set_connected")
  /\ connected' = TRUE
  /\ pc' = [pc EXCEPT ![t] = "idle"]
  /\ ret' = [ret EXCEPT ![t] =
               [op |-> "connect", status |-> "ok", what |-> "", value |-> <<>>,
                io |-> 0, ghost |-> loc[t]]]
  /\ loc' = [loc EXCEPT ![t] = NoLocals]
  /\ UNCHANGED <<ops, alive, runVars>>
  /\ UNCHANGED <<netVars, sockVars, isRunning, isStarted, threadVars, confVars,
                 errVars, lockVars, terminated>>

\* --------------------------------------------------------- Client::shutdown
ClientShutdownBegin(t) ==
  /\ Begin(t, "Client", "cshutdown_lock", NoLocals)
  /\ UNCHANGED <<netVars, sockVars, flagVars, threadVars, confVars, errVars,
                 lockVars, terminated>>

\* Client.cpp 19-22: ~Client() calls shutdown() and then destroys the members.
\* No other call may be inside an object that is being destroyed.
ClientDestroyBegin(t) ==
  /\ \A u \in Threads : ~InCall(u, "Client")
  /\ Begin(t, "Client", "cshutdown_lock", [NoLocals EXCEPT !.dtor = TRUE])
  /\ UNCHANGED <<netVars, sockVars, flagVars, threadVars, confVars, errVars,
                 lockVars, terminated>>

\* Client.cpp 112: std::lock_guard lock(shutdownMutex)
ClientShutdownLock(t) ==
  /\ At(t, "cshutdown_lock")
  /\ shutdownMutex["Client"] = "free"
  /\ shutdownMutex' = [shutdownMutex EXCEPT !["Client"] = t]
  /\ Goto(t, "cshutdown_check")
  /\ UNCHANGED <<netVars, sockVars, flagVars, threadVars, confVars, errVars,
                 handlerMutex, reqMutex, terminated>>

\* Client.cpp 114: if (isRunning)
ClientShutdownGuard == isRunning["Client"]

\* Client.cpp 114, 129: not running: unlock and return
ClientShutdownCheck(t) ==
  /\ At(t, "cshutdown_check")
  /\ IF ClientShutdownGuard
     THEN /\ Goto(t, "cshutdown_flag")
          /\ UNCHANGED shutdownMutex
     ELSE /\ shutdownMutex' = [shutdownMutex EXCEPT !["Client"] = "free"]
          /\ IF loc[t].dtor THEN Goto(t, "cdtor_thread")
             ELSE Return(t, "shutdown", "ok", "", <<>>)
  /\ UNCHANGED <<netVars, sockVars, flagVars, threadVars, confVars, errVars,
                 handlerMutex, reqMutex, terminated>>

\* Client.cpp 116: isRunning = false
ClientShutdownFlag(t) ==
  /\ At(t, "cshutdown_flag")
  /\ isRunning' = [isRunning EXCEPT !["Client"] = FALSE]
  /\ GotoWith(t, "cshutdown_close_sub", [loc[t] EXCEPT !.acted = TRUE])
  /\ UNCHANGED <<netVars, sockVars, connected, isStarted, threadVars, confVars,
                 errVars, lockVars, terminated>>

\* Client.cpp 118: subSocket.close()
ClientShutdownCloseSub(t) ==
  /\ At(t, "cshutdown_close_sub")
  /\ TransportClose(subSocket)
  /\ subSocket' = NngSocketClose(subSocket)
  /\ Goto(t, "cshutdown_close_req")
  /\ UNCHANGED <<peerRequests, reqSocket, pubSocket, repSocket, flagVars,
                 threadVars, confVars, errVars, lockVars, terminated>>

ClientShutdownSkipsReq(t) ==
  /\ At(t, "cshutdown_close_req")
  /\ Goto(t, "cshutdown_join")
  /\ UNCHANGED <<netVars, sockVars, flagVars, threadVars, confVars, errVars,
                 lockVars, terminated>>

\* Client.cpp 119: reqSocket.close()
ClientShutdownCloseReq(t) ==
  /\ At(t, "cshutdown_close_req")
  /\ TransportClose(reqSocket)
  /\ reqSocket' = NngSocketClose(reqSocket)
  /\ Goto(t, "cshutdown_join")
  /\ UNCHANGED <<peerRequests, subSocket, pubSocket, repSocket, flagVars,
                 threadVars, confVars, errVars, lockVars, terminated>>

\* Client.cpp 121-124
ClientShutdownJoin(t) ==
  /\ At(t, "cshutdown_join")
  /\ JoinReceiveThread("Client")
  /\ Goto(t, "cshutdown_unflag")
  /\ UNCHANGED <<netVars, sockVars, flagVars, live, confVars, errVars, lockVars,
                 terminated>>

\* Client.cpp 126-129: connected = false, unlock, return
ClientShutdownUnflag(t) ==
  /\ At(t, "cshutdown_unflag")
  /\ connected' = FALSE
  /\ shutdownMutex' = [shutdownMutex EXCEPT !["Client"] = "free"]
  /\ IF loc[t].dtor THEN Goto(t, "cdtor_thread")
     ELSE Return(t, "shutdown", "ok", "", <<>>)
  /\ UNCHANGED <<netVars, sockVars, isRunning, isStarted, threadVars, confVars,
                 errVars, handlerMutex, reqMutex, terminated>>

\* Client.cpp 19-22: member destruction, receiveThread
ClientDestroyThread(t) ==
  /\ At(t, "cdtor_thread")
  /\ DestroyReceiveThread("Client")
  /\ Goto(t, "cdtor_req")
  /\ UNCHANGED <<netVars, sockVars, flagVars, threadVars, confVars, errVars, lockVars>>

\* NngSocket.cpp 6-9: ~NngSocket of reqSocket
ClientDestroyReq(t) ==
  /\ At(t, "cdtor_req")
  /\ TransportClose(reqSocket)
  /\ reqSocket' = NngSocketClose(reqSocket)
  /\ Goto(t, "cdtor_sub")
  /\ UNCHANGED <<peerRequests, subSocket, pubSocket, repSocket, flagVars,
                 threadVars, confVars, errVars, lockVars, terminated>>

\* NngSocket.cpp 6-9: ~NngSocket of subSocket; the Client is gone
ClientDestroySub(t) ==
  /\ At(t, "cdtor_sub")
  /\ TransportClose(subSocket)
  /\ subSocket' = NngSocketClose(subSocket)
  /\ pc' = [pc EXCEPT ![t] = "idle"]
  /\ ret' = [ret EXCEPT ![t] = [NoResult EXCEPT !.op = "destroy", !.status = "ok"]]
  /\ loc' = [loc EXCEPT ![t] = NoLocals]
  /\ alive' = [alive EXCEPT !["Client"] = FALSE]
  /\ UNCHANGED <<ops, runVars>>
  /\ UNCHANGED <<peerRequests, reqSocket, pubSocket, repSocket, flagVars,
                 threadVars, confVars, errVars, lockVars, terminated>>

\* -------------------------------------------------------------- Client::on
ClientOnBegin(t) ==
  /\ \E e \in Events : Begin(t, "Client", "con_lock", [NoLocals EXCEPT !.event = e])
  /\ UNCHANGED <<netVars, sockVars, flagVars, threadVars, confVars, errVars,
                 lockVars, terminated>>

ClientOnKeepsLock(t) ==
  /\ At(t, "con_lock")
  /\ handlerMutex["Client"] = "free"
  /\ handlerMutex' = [handlerMutex EXCEPT !["Client"] = t]
  /\ eventHandlers' = [eventHandlers EXCEPT !["Client"] =
                         [e \in DOMAIN @ \cup {loc[t].event} |-> "handler"]]
  /\ Return(t, "on", "ok", "", <<>>)
  /\ UNCHANGED <<netVars, sockVars, flagVars, threadVars, encryptionStrategy,
                 errVars, shutdownMutex, reqMutex, terminated>>

\* Client.cpp 131-135
ClientOn(t) ==
  /\ At(t, "con_lock")
  /\ handlerMutex["Client"] = "free"
  /\ eventHandlers' = [eventHandlers EXCEPT !["Client"] =
                         [e \in DOMAIN @ \cup {loc[t].event} |-> "handler"]]
  /\ Return(t, "on", "ok", "", <<>>)
  /\ UNCHANGED <<netVars, sockVars, flagVars, threadVars, encryptionStrategy,
                 errVars, lockVars, terminated>>

\* ------------------------------------------------------------ Client::emit
EmitBegin(t) ==
  /\ \E e \in Events : Begin(t, "Client", "emit_check", [NoLocals EXCEPT !.event = e])
  /\ UNCHANGED <<netVars, sockVars, flagVars, threadVars, confVars, errVars,
                 lockVars, terminated>>

EmitGuardOff == FALSE
\* Client.cpp 139: if (!connected)
EmitGuard == ~connected

\* Client.cpp 139-142
EmitCheck(t) ==
  /\ At(t, "emit_check")
  /\ IF EmitGuard
     THEN Return(t, "emit", "error", "Client is not connected", <<>>)
     ELSE Goto(t, "emit_lock")
  /\ UNCHANGED <<netVars, sockVars, flagVars, threadVars, confVars, errVars,
                 lockVars, terminated>>

ReqMutexIgnored == TRUE
\* Client.cpp 144: std::lock_guard lock(reqMutex)
ReqMutexFree == reqMutex = "free"

EmitLock(t) ==
  /\ At(t, "emit_lock")
  /\ ReqMutexFree
  /\ reqMutex' = t
  /\ Goto(t, "emit_send")
  /\ UNCHANGED <<netVars, sockVars, flagVars, threadVars, confVars, errVars,
                 shutdownMutex, handlerMutex, terminated>>

\* emit leaves: the lock_guard releases reqMutex
EmitLeave(t, status, what, value, ghost) ==
  /\ reqMutex' = "free"
  /\ pc' = [pc EXCEPT ![t] = "idle"]
  /\ ret' = [ret EXCEPT ![t] = [op |-> "emit", status |-> status, what |-> what,
                                value |-> value, io |-> loc[t].io + 1,
                                ghost |-> ghost]]
  /\ loc' = [loc EXCEPT ![t] = NoLocals]
  /\ UNCHANGED <<ops, alive, runVars, shutdownMutex, handlerMutex>>

\* Client.cpp 146-162: dump, encrypt, nng_send on the REQ socket; a new
\* request replaces the one the socket was waiting for.
EmitSend(t) ==
  /\ At(t, "emit_send")
  /\ LET h == reqSocket.socket
         message == Encrypt(encryptionStrategy["Client"],
                            Dump(Envelope(loc[t].event, t)))
     IN IF IsOpen(h)
        THEN /\ reqOut' = [NoRequest EXCEPT !.state = "wire", !.h = h, !.by = t,
                                            !.event = loc[t].event,
                                            !.message = message]
             /\ GotoWith(t, "emit_recv", [loc[t] EXCEPT !.io = @ + 1, !.h = h])
             /\ UNCHANGED lockVars
        ELSE /\ EmitLeave(t, "error", "Failed to send request", <<>>, <<>>)
             /\ UNCHANGED reqOut
  /\ UNCHANGED <<sock, repPending, subQueue, peerRequests, sockVars, flagVars,
                 threadVars, confVars, errVars, terminated>>

\* Client.cpp 172-180: decrypt and parse the response
DecodeResponse(key, response) ==
  LET d == Decrypt(key, response) IN
  IF ~d.ok THEN [ok |-> FALSE, what |-> d.what] ELSE Parse(d.text)

\* Client.cpp 164-170: the blocked nng_recv on the REQ socket fails when the
\* socket is closed
EmitRecvFail(t) ==
  /\ At(t, "emit_recv")
  /\ ~IsOpen(loc[t].h)
  /\ EmitLeave(t, "error", "Failed to receive response", <<>>, <<>>)
  /\ UNCHANGED <<netVars, sockVars, flagVars, threadVars, confVars, errVars,
                 terminated>>

\* Client.cpp 164-181: nng_recv returns the reply; decrypt, parse, return
EmitRecv(t) ==
  /\ At(t, "emit_recv")
  /\ IsOpen(loc[t].h)
  /\ reqOut.state = "replied" /\ reqOut.h = loc[t].h
  /\ LET r == DecodeResponse(encryptionStrategy["Client"], reqOut.reply)
         ghost == [by |-> reqOut.by, event |-> reqOut.event, case |-> reqOut.case]
     IN IF r.ok
        THEN EmitLeave(t, "ok", "", r.json, ghost)
        ELSE EmitLeave(t, "error", r.what, <<>>, ghost)
  /\ reqOut' = NoRequest
  /\ UNCHANGED <<sock, repPending, subQueue, peerRequests, sockVars, flagVars,
                 threadVars, confVars, errVars, terminated>>

\* ----------------------------------------------------- Client::receiveLoop
\* Client.cpp 200: while (isRunning)
ClientLoopTop ==
  /\ LoopAt("Client", "top")
  /\ IF isRunning["Client"]
     THEN /\ loop' = [loop EXCEPT !["Client"].pc = "recv",
                                  !["Client"].h = subSocket.socket]
          /\ UNCHANGED live
     ELSE LoopExit("Client")
  /\ UNCHANGED <<netVars, sockVars, flagVars, receiveThread, confVars, errVars,
                 lockVars, callVars, terminated>>

\* Client.cpp 204-206: nng_recv returns NNG_ECLOSED
ClientRecvClosed ==
  /\ LoopAt("Client", "recv")
  /\ ~IsOpen(loop["Client"].h)
  /\ LoopExit("Client")
  /\ UNCHANGED <<netVars, sockVars, flagVars, receiveThread, confVars, errVars,
                 lockVars, callVars, terminated>>

\* Client.cpp 208-212: nng_recv returns another error: continue
ClientRecvError ==
  /\ LoopAt("Client", "recv")
  /\ IsOpen(loop["Client"].h)
  /\ loop' = [loop EXCEPT !["Client"].pc = "top"]
  /\ UNCHANGED <<netVars, sockVars, flagVars, receiveThread, live, confVars, errVars,
                 lockVars, callVars, terminated>>

\* Client.cpp 204-234: nng_recv returns a broadcast; handleMessage decrypts and
\* parses it; a failure is caught and logged, and the message is dropped
ClientRecvMessage ==
  /\ LoopAt("Client", "recv")
  /\ IsOpen(loop["Client"].h) /\ loop["Client"].h = subSocket.socket
  /\ subQueue # <<>>
  /\ subQueue' = Tail(subQueue)
  /\ LET r == DecodeEnvelope(encryptionStrategy["Client"], Head(subQueue))
     IN IF r.ok
        THEN loop' = [loop EXCEPT !["Client"].pc = "lock", !["Client"].event = r.event,
                                  !["Client"].data = r.data]
        ELSE loop' = [loop EXCEPT !["Client"].pc = "top"]
  /\ UNCHANGED <<sock, repPending, reqOut, peerRequests, sockVars, flagVars,
                 receiveThread, live, confVars, errVars, lockVars, callVars,
                 terminated>>

\* Client.cpp 236: std::lock_guard lock(handlerMutex)
HandleMessageLock ==
  /\ LoopAt("Client", "lock")
  /\ handlerMutex["Client"] = "free"
  /\ handlerMutex' = [handlerMutex EXCEPT !["Client"] = "cloop"]
  /\ loop' = [loop EXCEPT !["Client"].pc = "dispatch"]
  /\ UNCHANGED <<netVars, sockVars, flagVars, receiveThread, live, confVars, errVars,
                 shutdownMutex, reqMutex, callVars, terminated>>

\* Client.cpp 237-247: call the handler, or log the unknown event; an exception
\* deriving from std::exception is caught and logged, any other one leaves the
\* thread function: std::terminate.
HandleMessageDispatch ==
  /\ LoopAt("Client", "dispatch")
  /\ LET l == loop["Client"] IN
     IF l.event \in DOMAIN eventHandlers["Client"]
     THEN \E outcome \in {"nothing", "throws_std", "throws_other"} :
            IF outcome = "nothing" \/ Caught(outcome)
            THEN /\ loop' = [loop EXCEPT !["Client"].pc = "top",
                               !["Client"].event = "", !["Client"].data = ""]
                 /\ handlerMutex' = [handlerMutex EXCEPT !["Client"] = "free"]
                 /\ UNCHANGED terminated
            ELSE /\ loop' = [loop EXCEPT !["Client"].pc = "aborted"]
                 /\ terminated' = TRUE
                 /\ UNCHANGED handlerMutex
     ELSE /\ loop' = [loop EXCEPT !["Client"].pc = "top",
                        !["Client"].event = "", !["Client"].data = ""]
          /\ handlerMutex' = [handlerMutex EXCEPT !["Client"] = "free"]
          /\ UNCHANGED terminated
  /\ UNCHANGED <<netVars, sockVars, flagVars, receiveThread, live, confVars, errVars,
                 shutdownMutex, reqMutex, callVars>>

ClientThreadNext(t) ==
  \/ ConnectBegin(t) \/ ConnectOpenSub(t) \/ ConnectMarkSub(t) \/ ConnectOpenReq(t)
  \/ ConnectMarkReq(t) \/ ConnectDialSub(t) \/ ConnectDialReq(t) \/ ConnectThrow(t)
  \/ ConnectSetopt(t) \/ ConnectSetRunning(t) \/ ConnectSpawn(t)
  \/ ConnectSetConnected(t)
  \/ ClientShutdownBegin(t) \/ ClientDestroyBegin(t) \/ ClientShutdownLock(t)
  \/ ClientShutdownCheck(t) \/ ClientShutdownFlag(t) \/ ClientShutdownCloseSub(t)
  \/ ClientShutdownCloseReq(t) \/ ClientShutdownJoin(t) \/ ClientShutdownUnflag(t)
  \/ ClientDestroyThread(t) \/ ClientDestroyReq(t) \/ ClientDestroySub(t)
  \/ ClientOnBegin(t) \/ ClientOn(t)
  \/ EmitBegin(t) \/ EmitCheck(t) \/ EmitLock(t) \/ EmitSend(t) \/ EmitRecv(t)

ClientLoopNext ==
  \/ ClientLoopTop \/ ClientRecvClosed \/ ClientRecvError \/ ClientRecvMessage
  \/ HandleMessageLock \/ HandleMessageDispatch

ServerThreadNext(t) ==
  \/ ServeBegin(t) \/ ServeOpenPub(t) \/ ServeMarkPub(t) \/ ServeOpenRep(t)
  \/ ServeMarkRep(t) \/ ServeListenPub(t) \/ ServeListenRep(t)
  \/ ServeSetRunning(t) \/ ServeSpawn(t) \/ ServeSetStarted(t)
  \/ ServerShutdownBegin(t) \/ ServerDestroyBegin(t) \/ ServerShutdownLock(t)
  \/ ServerShutdownCheck(t) \/ ServerShutdownFlag(t) \/ ServerShutdownClosePub(t)
  \/ ServerShutdownCloseRep(t) \/ ServerShutdownJoin(t) \/ ServerShutdownUnflag(t)
  \/ ServerDestroyThread(t) \/ ServerDestroyRep(t) \/ ServerDestroyPub(t)
  \/ ServerOnBegin(t) \/ ServerOn(t)
  \/ ServerEmitBegin(t) \/ ServerEmitCheck(t) \/ ServerEmitSend(t)

ServerLoopNext ==
  \/ ServerLoopTop \/ ServerRecvClosed \/ ServerRecvError \/ ServerRecvClient
  \/ ServerRecvPeer \/ HandleRequestLock
  \/ HandleRequestDispatch \/ HandleRequestSend \/ HandleRequestCatch

\* One caller thread.  EmitRecvFail is no step of these runs: nothing closes
\* the REQ socket under the only caller's blocked receive.
Next ==
  \/ \E t \in Threads : ClientThreadNext(t) \/ ServerThreadNext(t)
  \/ ClientLoopNext
  \/ ServerLoopNext

Spec == Init /\ [][Next]_vars

\* Two caller threads on a connected Client and a serving Server.
NextRace ==
  \/ \E t \in Threads :
       \/ ClientShutdownBegin(t) \/ ClientDestroyBegin(t) \/ ClientShutdownLock(t)
       \/ ClientShutdownCheck(t) \/ ClientShutdownFlag(t)
       \/ ClientShutdownCloseSub(t) \/ ClientShutdownCloseReq(t)
       \/ ClientShutdownJoin(t) \/ ClientShutdownUnflag(t)
       \/ ClientDestroyThread(t) \/ ClientDestroyReq(t) \/ ClientDestroySub(t)
       \/ EmitBegin(t) \/ EmitCheck(t) \/ EmitLock(t) \/ EmitSend(t)
       \/ EmitRecvFail(t) \/ EmitRecv(t)
       \/ ServerShutdownBegin(t) \/ ServerDestroyBegin(t) \/ ServerShutdownLock(t)
       \/ ServerShutdownCheck(t) \/ ServerShutdownFlag(t)
       \/ ServerShutdownClosePub(t) \/ ServerShutdownCloseRep(t)
       \/ ServerShutdownJoin(t) \/ ServerShutdownUnflag(t)
       \/ ServerDestroyThread(t) \/ ServerDestroyRep(t) \/ ServerDestroyPub(t)
  \/ ClientLoopTop \/ ClientRecvClosed \/ ClientRecvError
  \/ ServerLoopNext

SpecRace == InitRace /\ [][NextRace]_vars

\* ------------------------------------------- callers against the dispatch
\* A run with two caller threads on a connected Client that has a handler
\* for e1, with a broadcast already queued or not; the Server is serving.
InitLocks ==
  /\ focus = "Race"
  /\ NoStrategyCall
  /\ repPending = NoPending
  /\ reqOut = NoRequest
  /\ peerRequests = 0
  /\ lastSubDialError = NoError
  /\ lastReqDialError = NoError
  /\ shutdownMutex = [i \in Instances |-> "free"]
  /\ handlerMutex = [i \in Instances |-> "free"]
  /\ reqMutex = "free"
  /\ pc = [t \in Threads |-> "idle"]
  /\ loc = [t \in Threads |-> NoLocals]
  /\ ret = [t \in Threads |-> NoResult]
  /\ ops = 0
  /\ alive = [i \in Instances |-> TRUE]
  /\ terminated = FALSE
  /\ sock = <<[NewSocket("pub") EXCEPT !.listening = TRUE],
              [NewSocket("rep") EXCEPT !.listening = TRUE],
              [NewSocket("sub") EXCEPT !.dials = 1, !.subscribed = TRUE],
              [NewSocket("req") EXCEPT !.dials = 1]>>
  /\ pubSocket = [socket |-> 1, isOpen |-> TRUE]
  /\ repSocket = [socket |-> 2, isOpen |-> TRUE]
  /\ subSocket = [socket |-> 3, isOpen |-> TRUE]
  /\ reqSocket = [socket |-> 4, isOpen |-> TRUE]
  /\ isRunning = [i \in Instances |-> TRUE]
  /\ isStarted = TRUE
  /\ connected = TRUE
  /\ receiveThread = [i \in Instances |-> [joinable |-> TRUE]]
  /\ loop = [i \in Instances |-> [IdleLoop EXCEPT !.pc = "top"]]
  /\ live = [i \in Instances |-> 1]
  /\ eventHandlers = [i \in Instances |-> [e \in {"e1"} |-> "handler"]]
  /\ encryptionStrategy = [i \in Instances |-> "none"]
  /\ subQueue \in {<<>>, <<Encrypt(encryptionStrategy["Server"],
                                   Dump(Envelope("e1", "broadcast")))>>}

\* on(), emit() and shutdown() of the Client and shutdown() of the Server, by
\* two callers, against both loops.
NextLocks ==
  \/ \E t \in Threads :
       \/ ClientOnBegin(t) \/ ClientOn(t)
       \/ EmitBegin(t) \/ EmitCheck(t) \/ EmitLock(t) \/ EmitSend(t)
       \/ EmitRecvFail(t) \/ EmitRecv(t)
       \/ ClientShutdownBegin(t) \/ ClientShutdownLock(t)
       \/ ClientShutdownCheck(t) \/ ClientShutdownFlag(t)
       \/ ClientShutdownCloseSub(t) \/ ClientShutdownCloseReq(t)
       \/ ClientShutdownJoin(t) \/ ClientShutdownUnflag(t)
       \/ ServerShutdownBegin(t) \/ ServerShutdownLock(t)
       \/ ServerShutdownCheck(t) \/ ServerShutdownFlag(t)
       \/ ServerShutdownClosePub(t) \/ ServerShutdownCloseRep(t)
       \/ ServerShutdownJoin(t) \/ ServerShutdownUnflag(t)
  \/ ClientLoopNext
  \/ ServerLoopNext

SpecLocks == InitLocks /\ [][NextLocks]_vars

\* --------------------------------------------- shutdown() against a start
\* A run with two caller threads on instances that have not been started: a
\* fresh Server, or a fresh Client whose Server is serving.
InitStart ==
  /\ focus = "Race"
  /\ Constructed
  /\ NoStrategyCall
  /\ \/ /\ sock = <<>>
        /\ pubSocket = [socket |-> NoSocket, isOpen |-> FALSE]
        /\ repSocket = [socket |-> NoSocket, isOpen |-> FALSE]
        /\ isRunning = [i \in Instances |-> FALSE]
        /\ isStarted = FALSE
        /\ receiveThread = [i \in Instances |-> [joinable |-> FALSE]]
        /\ loop = [i \in Instances |-> IdleLoop]
        /\ live = [i \in Instances |-> 0]
     \/ /\ sock = <<[NewSocket("pub") EXCEPT !.listening = TRUE],
                    [NewSocket("rep") EXCEPT !.listening = TRUE]>>
        /\ pubSocket = [socket |-> 1, isOpen |-> TRUE]
        /\ repSocket = [socket |-> 2, isOpen |-> TRUE]
        /\ isRunning = [Client |-> FALSE, Server |-> TRUE]
        /\ isStarted = TRUE
        /\ receiveThread = [Client |-> [joinable |-> FALSE],
                            Server |-> [joinable |-> TRUE]]
        /\ loop = [Client |-> IdleLoop, Server |-> [IdleLoop EXCEPT !.pc = "top"]]
        /\ live = [Client |-> 0, Server |-> 1]
  /\ eventHandlers = [i \in Instances |-> <<>>]
  /\ encryptionStrategy = [i \in Instances |-> "none"]

\* connect() and shutdown() of the Client, serve() and shutdown() of the
\* Server, by two callers; the loops receive nothing but errors.
NextStart ==
  \/ \E t \in Threads :
       \/ ConnectBegin(t) \/ ConnectOpenSub(t) \/ ConnectMarkSub(t)
       \/ ConnectOpenReq(t) \/ ConnectMarkReq(t) \/ ConnectDialSub(t)
       \/ ConnectDialReq(t) \/ ConnectThrow(t) \/ ConnectSetopt(t)
       \/ ConnectSetRunning(t) \/ ConnectSpawn(t) \/ ConnectSetConnected(t)
       \/ ClientShutdownBegin(t) \/ ClientShutdownLock(t)
       \/ ClientShutdownCheck(t) \/ ClientShutdownFlag(t)
       \/ ClientShutdownCloseSub(t) \/ ClientShutdownCloseReq(t)
       \/ ClientShutdownJoin(t) \/ ClientShutdownUnflag(t)
       \/ ServeBegin(t) \/ ServeOpenPub(t) \/ ServeMarkPub(t) \/ ServeOpenRep(t)
       \/ ServeMarkRep(t) \/ ServeListenPub(t) \/ ServeListenRep(t)
       \/ ServeSetRunning(t) \/ ServeSpawn(t) \/ ServeSetStarted(t)
       \/ ServerShutdownBegin(t) \/ ServerShutdownLock(t)
       \/ ServerShutdownCheck(t) \/ ServerShutdownFlag(t)
       \/ ServerShutdownClosePub(t) \/ ServerShutdownCloseRep(t)
       \/ ServerShutdownJoin(t) \/ ServerShutdownUnflag(t)
  \/ ClientLoopTop \/ ClientRecvClosed \/ ClientRecvError
  \/ ServerLoopTop \/ ServerRecvClosed \/ ServerRecvError

SpecStart == InitStart /\ [][NextStart]_vars

\* ------------------------------------- handlers that call the instance
\* The handler the Client's loop has called (Client.cpp 238) calls on() of
\* its Client.  handlerMutex is a std::mutex and the calling thread owns it
\* since line 236: locking it again has undefined behaviour.  The builds in
\* use either never return from the lock, or throw std::system_error, which
\* leaves the handler and is caught at line 244.
HandlerCallsOn ==
  /\ LoopAt("Client", "dispatch")
  /\ loop["Client"].event \in DOMAIN eventHandlers["Client"]
  /\ handlerMutex["Client"] = "cloop"
  /\ \E outcome \in {"blocks", "throws"} :
       IF outcome = "blocks"
       THEN /\ loop' = [loop EXCEPT !["Client"].pc = "handler_on_lock"]
            /\ UNCHANGED handlerMutex
       ELSE /\ loop' = [loop EXCEPT !["Client"].pc = "top",
                          !["Client"].event = "", !["Client"].data = ""]
            /\ handlerMutex' = [handlerMutex EXCEPT !["Client"] = "free"]
  /\ UNCHANGED <<netVars, sockVars, flagVars, receiveThread, live, confVars, errVars,
                 shutdownMutex, reqMutex, callVars, terminated>>

\* The handler calls shutdown() of its Client.
HandlerShutdownBegin ==
  /\ LoopAt("Client", "dispatch")
  /\ loop["Client"].event \in DOMAIN eventHandlers["Client"]
  /\ loop' = [loop EXCEPT !["Client"].pc = "handler_shutdown_lock"]
  /\ UNCHANGED <<netVars, sockVars, flagVars, receiveThread, live, confVars, errVars,
                 lockVars, callVars, terminated>>

\* Client.cpp 112, on the loop thread
HandlerShutdownLock ==
  /\ LoopAt("Client", "handler_shutdown_lock")
  /\ shutdownMutex["Client"] = "free"
  /\ shutdownMutex' = [shutdownMutex EXCEPT !["Client"] = "cloop"]
  /\ loop' = [loop EXCEPT !["Client"].pc = "handler_shutdown_check"]
  /\ UNCHANGED <<netVars, sockVars, flagVars, receiveThread, live, confVars, errVars,
                 handlerMutex, reqMutex, callVars, terminated>>

\* Client.cpp 114-116; when not running shutdown() returns, and so does the
\* handler.
HandlerShutdownCheck ==
  /\ LoopAt("Client", "handler_shutdown_check")
  /\ IF ClientShutdownGuard
     THEN /\ isRunning' = [isRunning EXCEPT !["Client"] = FALSE]
          /\ loop' = [loop EXCEPT !["Client"].pc = "handler_shutdown_close_sub"]
          /\ UNCHANGED lockVars
     ELSE /\ shutdownMutex' = [shutdownMutex EXCEPT !["Client"] = "free"]
          /\ handlerMutex' = [handlerMutex EXCEPT !["Client"] = "free"]
          /\ loop' = [loop EXCEPT !["Client"].pc = "top",
                        !["Client"].event = "", !["Client"].data = ""]
          /\ UNCHANGED <<isRunning, reqMutex>>
  /\ UNCHANGED <<netVars, sockVars, connected, isStarted, receiveThread, live,
                 confVars, errVars, callVars, terminated>>

\* Client.cpp 118
HandlerShutdownCloseSub ==
  /\ LoopAt("Client", "handler_shutdown_close_sub")
  /\ TransportClose(subSocket)
  /\ subSocket' = NngSocketClose(subSocket)
  /\ loop' = [loop EXCEPT !["Client"].pc = "handler_shutdown_close_req"]
  /\ UNCHANGED <<peerRequests, reqSocket, pubSocket, repSocket, flagVars,
                 receiveThread, live, confVars, errVars, lockVars, callVars,
                 terminated>>

\* Client.cpp 119
HandlerShutdownCloseReq ==
  /\ LoopAt("Client", "handler_shutdown_close_req")
  /\ TransportClose(reqSocket)
  /\ reqSocket' = NngSocketClose(reqSocket)
  /\ loop' = [loop EXCEPT !["Client"].pc = "handler_shutdown_join"]
  /\ UNCHANGED <<peerRequests, subSocket, pubSocket, repSocket, flagVars,
                 receiveThread, live, confVars, errVars, lockVars, callVars,
                 terminated>>

\* Client.cpp 121-124: receiveThread is joinable and is the calling thread:
\* join() throws std::system_error (resource_deadlock_would_occur).  Line 126
\* is skipped, the lock_guard releases shutdownMutex, the exception leaves the
\* handler and is caught at line 244.
HandlerShutdownJoin ==
  /\ LoopAt("Client", "handler_shutdown_join")
  /\ receiveThread["Client"].joinable
  /\ shutdownMutex' = [shutdownMutex EXCEPT !["Client"] = "free"]
  /\ handlerMutex' = [handlerMutex EXCEPT !["Client"] = "free"]
  /\ loop' = [loop EXCEPT !["Client"].pc = "top",
                !["Client"].event = "", !["Client"].data = ""]
  /\ UNCHANGED <<netVars, sockVars, flagVars, receiveThread, live, confVars, errVars,
                 reqMutex, callVars, terminated>>

\* shutdown() by two callers against a Client loop whose handler calls on()
\* or shutdown().
NextReentrant ==
  \/ \E t \in Threads :
       \/ ClientShutdownBegin(t) \/ ClientShutdownLock(t)
       \/ ClientShutdownCheck(t) \/ ClientShutdownFlag(t)
       \/ ClientShutdownCloseSub(t) \/ ClientShutdownCloseReq(t)
       \/ ClientShutdownJoin(t) \/ ClientShutdownUnflag(t)
  \/ ClientLoopNext
  \/ HandlerCallsOn
  \/ HandlerShutdownBegin \/ HandlerShutdownLock \/ HandlerShutdownCheck
  \/ HandlerShutdownCloseSub \/ HandlerShutdownCloseReq \/ HandlerShutdownJoin

SpecReentrant == InitLocks /\ [][NextReentrant]_vars

\* ------------------------------------------- an encryption strategy in use
ipcVars == <<netVars, sockVars, flagVars, threadVars, confVars, errVars,
             lockVars, pc, loc, ret, ops, alive, focus, terminated>>

\* A run that exercises one strategy object on one text; no Client and no
\* Server call is made in it.
InitStrategy ==
  /\ focus = "Strategy"
  /\ Constructed
  /\ sock = <<>>
  /\ pubSocket = [socket |-> NoSocket, isOpen |-> FALSE]
  /\ repSocket = [socket |-> NoSocket, isOpen |-> FALSE]
  /\ isRunning = [i \in Instances |-> FALSE]
  /\ isStarted = FALSE
  /\ receiveThread = [i \in Instances |-> [joinable |-> FALSE]]
  /\ loop = [i \in Instances |-> IdleLoop]
  /\ live = [i \in Instances |-> 0]
  /\ eventHandlers = [i \in Instances |-> <<>>]
  /\ encryptionStrategy = [i \in Instances |-> "none"]
  /\ strategy \in Strategies
  /\ plainText \in PlainTexts
  /\ finalMessage = <<>>
  /\ decrypted = NotDecrypted
  /\ origin = "none"

\* strategy->encrypt(plainText)
StrategyEncrypt ==
  /\ focus = "Strategy"
  /\ origin = "none"
  /\ \E nonce \in Nonces :
       finalMessage' = IF strategy.kind = "aes"
               THEN AesEaxEncrypt(strategy.key, nonce, plainText)
               ELSE NoEncryptionEncrypt(plainText)
  /\ origin' = "encrypt"
  /\ UNCHANGED <<ipcVars, strategy, plainText, decrypted>>

\* the message is altered in one byte on its way: in the nonce, in the
\* ciphertext or in the tag.
AlterByte ==
  /\ focus = "Strategy"
  /\ origin = "encrypt"
  /\ ~decrypted.done
  /\ \E i \in 1..Len(finalMessage) : \E b \in Bytes \ {finalMessage[i]} :
       finalMessage' = [finalMessage EXCEPT ![i] = b]
  /\ origin' = "altered"
  /\ UNCHANGED <<ipcVars, strategy, plainText, decrypted>>

\* only the first n bytes of the message arrive.
Truncate ==
  /\ focus = "Strategy"
  /\ origin = "encrypt"
  /\ ~decrypted.done
  /\ \E n \in TruncatedSizes :
       /\ n < Len(finalMessage)
       /\ finalMessage' = SubSeq(finalMessage, 1, n)
  /\ origin' = "truncated"
  /\ UNCHANGED <<ipcVars, strategy, plainText, decrypted>>

\* strategy->decrypt(finalMessage)
StrategyDecrypt ==
  /\ focus = "Strategy"
  /\ origin # "none"
  /\ ~decrypted.done
  /\ decrypted' = IF strategy.kind = "aes"
                  THEN AesEaxDecrypt(strategy.key, strategy.callback, finalMessage)
                  ELSE NoEncryptionDecrypt(finalMessage)
  /\ UNCHANGED <<ipcVars, strategy, plainText, finalMessage, origin>>

NextStrategy == StrategyEncrypt \/ AlterByte \/ Truncate \/ StrategyDecrypt
SpecStrategy == InitStrategy /\ [][NextStrategy]_vars

\* ================================================================== claims
InHandleRequest == loop["Server"].pc \in {"lock", "dispatch", "send", "catch"}

\* C1: every request the Server's receive loop has taken is answered by exactly
\* one reply send attempt before the loop receives again or ends, whatever
\* became of the request (handler value, no value, no handler, handler threw,
\* undecodable): never two sends, and never zero once handleRequest is over.
C1_ExactlyOneReply ==
  LET l == loop["Server"] IN
    /\ l.sends <= 1
    /\ (l.received /\ ~InHandleRequest) => l.sends = 1

\* C2: of the threads inside Client.emit at most one is between its send and
\* the end of its receive, that thread holds reqMutex, the reply in flight
\* answers its request, and every reply an emit returned answers the request
\* that same call sent.
C2_EmitSerialized ==
  /\ Cardinality({t \in Threads : pc[t] = "emit_recv"}) <= 1
  /\ \A t \in Threads :
       /\ pc[t] = "emit_recv" => reqMutex = t /\ reqOut.by \in {t, ""}
       /\ (ret[t].op = "emit" /\ ret[t].ghost # <<>>) =>
            /\ ret[t].ghost.by = t
            /\ (ret[t].status = "ok" /\ ret[t].ghost.case = "value") =>
                 ret[t].value = HandlerValue(ret[t].ghost.event, t)

\* two emits overlap: one has returned the handler's reply to its own request
\* while the other is still inside emit
C2_Witness ==
  \E t, u \in Threads :
    /\ t # u
    /\ pc[u] \in {"emit_lock", "emit_send", "emit_recv"}
    /\ ret[t].op = "emit" /\ ret[t].status = "ok" /\ ret[t].ghost # <<>>
    /\ ret[t].ghost.case = "value"
    /\ ret[t].value = HandlerValue(ret[t].ghost.event, t)

\* C3: Client.emit on a Client that is not connected, and Server.emit on a
\* Server that is not started, fail in the step that tests the flag: the call
\* is over with an error, it has sent and received nothing, and nothing of the
\* instances, the sockets or the transport has changed.
C3_EmitRefused ==
  [][\A t \in Threads :
       ((pc[t] = "emit_check" /\ ~connected) \/ (pc[t] = "semit_check" /\ ~isStarted))
         /\ pc'[t] # pc[t]
       => /\ pc'[t] = "idle"
          /\ ret'[t].op = "emit" /\ ret'[t].status = "error" /\ ret'[t].io = 0
          /\ ret'[t].what = IF pc[t] = "emit_check" THEN "Client is not connected"
                                                     ELSE "Server is not started"
          /\ UNCHANGED <<netVars, sockVars, flagVars, threadVars, confVars, errVars,
                         lockVars, terminated>>]_vars

\* an emit on a Server that is not started (its serve() failed, or it was shut
\* down) has been refused
C3_Witness ==
  \E t \in Threads :
    /\ ret[t].op = "emit" /\ ret[t].status = "error"
    /\ ret[t].what = "Server is not started" /\ ret[t].io = 0
    /\ ~isStarted /\ pubSocket.socket # NoSocket

\* connect() has thrown after its retry loop, and no dial of that call succeeded
ConnectFailedEveryDial(t) ==
  /\ ret[t].op = "connect" /\ ret[t].what = "Failed to connect"
  /\ ~ret[t].ghost.dialed

C5_ConnectedOnce ==
  \A t \in Threads :
    (ret[t].op = "connect" /\ ret[t].status = "ok") =>
      /\ ret[t].ghost.attempts < ret[t].ghost.maxRetries
      /\ isRunning["Client"] /\ connected
      /\ live["Client"] = 1 /\ loop["Client"].pc # "none"
      /\ sock[subSocket.socket].dials = 1
      /\ sock[reqSocket.socket].dials = 1

\* a caller thread is at shutdown()'s test of the running flag and finds it clear
ShutdownFindsStopped(t) ==
  \/ pc[t] = "cshutdown_check" /\ ~isRunning["Client"]
  \/ pc[t] = "sshutdown_check" /\ ~isRunning["Server"]

\* C6: shutdown is idempotent.  Over all calls of shutdown and of the
\* destructor, in sequence or racing, every endpoint is closed at most once and
\* each receive thread is joined at most once; at most one call per instance is
\* past the running-flag test, and it holds shutdownMutex; and a call that
\* finds the instance already stopped releases the mutex and is over (or goes
\* on to destroy the members) with no socket, flag, thread or transport state
\* changed.
C6_ShutdownIdempotent ==
  /\ [](/\ \A h \in 1..Len(sock) : sock[h].closeCalls <= 1
        /\ \A i \in Instances : loop[i].joined <= 1
        /\ \A i \in Instances :
             Cardinality({t \in Threads : InCall(t, i) /\ loc[t].acted}) <= 1)
  /\ [][\A t \in Threads :
         (ShutdownFindsStopped(t) /\ pc'[t] # pc[t]) =>
           /\ pc'[t] \in {"idle", "cdtor_thread", "sdtor_thread"}
           /\ UNCHANGED <<netVars, sockVars, flagVars, threadVars, confVars,
                          errVars, handlerMutex, reqMutex, terminated>>]_vars

\* two racing shutdown() calls on the Client have both returned: its endpoints
\* are closed once, its thread is joined once, the Server is untouched
C6_Witness ==
  /\ \A t \in Threads : ret[t].op = "shutdown" /\ pc[t] = "idle"
  /\ isRunning["Server"] /\ ~isRunning["Client"] /\ ~connected
  /\ sock[subSocket.socket].closeCalls = 1 /\ sock[reqSocket.socket].closeCalls = 1
  /\ loop["Client"].joined = 1

\* C7: a request that names an event with no handler bound gets one response,
\* tagged as an error and naming that event; handleRequest reaches its send
\* with the handler-map lock released, the loop goes on, and the Client's emit
\* does not fail: it returns that payload.
C7_MissingHandlerAnswered ==
  /\ LET l == loop["Server"] IN
       l.case = "missing" =>
         /\ l.pc = "send" /\ l.sends = 0
         /\ l.response = Some([event |-> "__error__", data |->
               [message |-> <<"Server has no handler bound for event: ", l.event>>]])
         /\ handlerMutex["Server"] # "sloop"
  /\ \A t \in Threads :
       (ret[t].op = "emit" /\ ret[t].ghost # <<>> /\ ret[t].ghost.case = "missing") =>
         /\ ret[t].status = "ok"
         /\ ret[t].value = [event |-> "__error__", data |->
               [message |-> <<"Server has no handler bound for event: ",
                              ret[t].ghost.event>>]]
         /\ loop["Server"].sends = 1
         /\ loop["Server"].pc \in {"top", "recv"}

\* the Client's emit of an event the Server has no handler for has returned
\* the error-tagged payload
C7_Witness ==
  \E t \in Threads :
    /\ ret[t].op = "emit" /\ ret[t].status = "ok" /\ ret[t].ghost # <<>>
    /\ ret[t].ghost.case = "missing"
    /\ ret[t].ghost.event \notin DOMAIN eventHandlers["Server"]
    /\ ret[t].value.event = "__error__"

\* C8: once a handler has raised a fault, the fault is caught: handleRequest is
\* in its catch clause with the failure text and the handler-map lock released,
\* or has sent the status=error response, and the loop goes on; the process
\* does not end and the Client is handed the error response.
C8_HandlerFaultCaught ==
  /\ LET l == loop["Server"] IN
       l.case = "threw" =>
         /\ l.pc = "catch" /\ l.what = "handler failure"
         /\ handlerMutex["Server"] # "sloop"
         /\ ~terminated
  /\ \A t \in Threads :
       (ret[t].op = "emit" /\ ret[t].ghost # <<>> /\ ret[t].ghost.case = "threw"
          /\ ret[t].status = "ok") =>
         /\ ret[t].value = [event |-> "__response__", data |->
               [status |-> "error", message |-> "handler failure"]]
         /\ loop["Server"].pc \in {"top", "recv"}

\* C9: when connect() or serve() has failed, the instance is Disconnected: the
\* running flag and isConnected()/isStarted() are false and no receive thread
\* exists, so that a following emit is refused by its first test.
C9_FailureLeavesDisconnected ==
  \A t \in Threads :
    /\ (ret[t].op = "connect" /\ ret[t].status = "error") =>
         /\ ~connected /\ ~isRunning["Client"]
         /\ ~receiveThread["Client"].joinable /\ live["Client"] = 0
         /\ EmitGuard
    /\ (ret[t].op = "serve" /\ ret[t].status = "error") =>
         /\ ~isStarted /\ ~isRunning["Server"]
         /\ ~receiveThread["Server"].joinable /\ live["Server"] = 0
         /\ ServerEmitGuard

\* C10: no step taken while an instance is Connected, and leaving it
\* Connected, starts a second receive loop or replaces an endpoint; an
\* instance never has two receive threads.
C10_NoReconnectWhileConnected ==
  [][/\ (connected /\ connected') =>
          /\ live'["Client"] <= 1
          /\ subSocket'.socket = subSocket.socket
          /\ reqSocket'.socket = reqSocket.socket
     /\ (isStarted /\ isStarted') =>
          /\ live'["Server"] <= 1
          /\ pubSocket'.socket = pubSocket.socket
          /\ repSocket'.socket = repSocket.socket]_vars

\* C11: no transport handle is closed twice, and once a Client or a Server has
\* been destroyed every handle opened for it is closed, whether or not
\* shutdown() was called before.
C11_HandlesClosedOnce ==
  /\ \A h \in 1..Len(sock) : sock[h].closeCalls <= 1
  /\ \A h \in 1..Len(sock) :
       /\ (~alive["Client"] /\ sock[h].proto \in {"sub", "req"}) => ~sock[h].open
       /\ (~alive["Server"] /\ sock[h].proto \in {"pub", "rep"}) => ~sock[h].open

\* the receive thread of instance i is on its way out: it is past its loop, or
\* its blocked receive is on a closed handle, or it is handling a message and
\* will test the cleared running flag next
LoopEnds(i) ==
  \/ loop[i].pc \in {"exited", "top", "lock", "dispatch", "send", "catch"}
  \/ loop[i].pc = "recv" /\ ~IsOpen(loop[i].h)

\* C12: shutdown() terminates in every connection state.  While it waits in
\* the join, the receive thread is on its way out (its blocked receive is on
\* an endpoint shutdown has closed), so the join returns; and when shutdown
\* has returned the instance is Disconnected: flags false, no receive thread.
C12_ShutdownTerminates ==
  terminated \/
  \A t \in Threads :
    /\ (pc[t] = "cshutdown_join" /\ receiveThread["Client"].joinable) =>
         LoopEnds("Client")
    /\ (pc[t] = "sshutdown_join" /\ receiveThread["Server"].joinable) =>
         LoopEnds("Server")
    /\ (ret[t].op = "shutdown" /\ focus = "Client") =>
         /\ ~connected /\ ~isRunning["Client"]
         /\ ~receiveThread["Client"].joinable /\ live["Client"] = 0
    /\ (ret[t].op = "shutdown" /\ focus = "Server") =>
         /\ ~isStarted /\ ~isRunning["Server"]
         /\ ~receiveThread["Server"].joinable /\ live["Server"] = 0


\* C13: with every strategy, decrypting what encrypt returned gives the text
\* back and the compromise callback is not invoked; the no-op strategy returns
\* its argument from encrypt and from decrypt.
C13_RoundTrip ==
  /\ (origin = "encrypt" /\ decrypted.done) =>
        /\ decrypted.ok
        /\ decrypted.text = plainText
        /\ decrypted.callbacks = 0
  /\ (strategy.kind = "none" /\ origin = "encrypt") => finalMessage = plainText
  /\ (strategy.kind = "none" /\ decrypted.done) =>
        decrypted.ok /\ decrypted.text = finalMessage

\* an AEAD strategy with a callback set has decrypted its own encryption of
\* the empty text (a message of exactly 32 bytes).
C13_Witness ==
  /\ strategy.kind = "aes" /\ strategy.callback
  /\ origin = "encrypt" /\ decrypted.done
  /\ plainText = <<>> /\ Len(finalMessage) = 32

\* C14: AEAD decrypt of a message shorter than 32 bytes, or of a message
\* altered in its nonce, ciphertext or tag, invokes the compromise callback
\* exactly once when one is set and fails, returning no text; for a message
\* shorter than 32 bytes no decryption is attempted.
C14_CompromiseReported ==
  (strategy.kind = "aes" /\ decrypted.done) =>
    /\ (Len(finalMessage) < 32 \/ origin = "altered") =>
          /\ ~decrypted.ok
          /\ decrypted.text = Nothing
          /\ decrypted.what \in {"Invalid size", "Decryption failed"}
          /\ decrypted.callbacks = IF strategy.callback THEN 1 ELSE 0
    /\ Len(finalMessage) < 32 => ~decrypted.attempted /\ decrypted.what = "Invalid size"
    /\ (Len(finalMessage) >= 32 /\ origin = "altered") =>
          decrypted.attempted /\ decrypted.what = "Decryption failed"

\* a message altered in its tag has been refused and the callback was called.
C14_Witness ==
  /\ strategy.kind = "aes" /\ strategy.callback
  /\ origin = "altered" /\ decrypted.done
  /\ Len(plainText) = 1
  /\ \E nonce \in Nonces :
       LET sent == AesEaxEncrypt(strategy.key, nonce, plainText)
       IN /\ SubSeq(finalMessage, 1, 17) = SubSeq(sent, 1, 17)
          /\ finalMessage # sent
  /\ decrypted.callbacks = 1 /\ ~decrypted.ok

\* the receive of instance i's loop returns an error other than closed: the
\* loop goes from its receive back to the loop condition and no message was
\* taken from the transport.
RecvFailed(i) ==
  /\ loop[i].pc = "recv" /\ loop'[i].pc = "top"
  /\ UNCHANGED <<subQueue, repPending, peerRequests>>

\* C15: in both receive loops a closed result, and only that result, ends
\* the loop from its receive; after any other error nothing is dispatched and
\* nothing is sent, the loop is back at its condition, and from there it
\* receives again when the instance is running and exits when it is not.
C15_LoopSurvivesErrors ==
  [][\A i \in Instances :
       /\ (loop[i].pc = "recv" /\ loop'[i].pc = "exited") => ~IsOpen(loop[i].h)
       /\ (loop[i].pc = "recv" /\ ~IsOpen(loop[i].h) /\ loop'[i] # loop[i]) =>
             loop'[i].pc = "exited"
       /\ RecvFailed(i) =>
             /\ loop'[i] = [loop[i] EXCEPT !.pc = "top"]
             /\ UNCHANGED <<netVars, lockVars, live, receiveThread, terminated>>
       /\ (loop[i].pc = "top" /\ loop'[i] # loop[i]) =>
             loop'[i].pc = IF isRunning[i] THEN "recv" ELSE "exited"]_vars

\* the Server's loop has come back from a receive without ever having taken a
\* request, and is about to receive again.
C15_Witness ==
  /\ loop["Server"].pc = "top" /\ loop["Server"].h # NoSocket
  /\ ~loop["Server"].received
  /\ isRunning["Server"] /\ IsOpen(repSocket.socket)
  /\ ~terminated

\* C16: for each broadcast the Client's loop dispatches, whether the event has
\* a handler or not and whether the handler returns or throws, the message is
\* done with after the dispatch: the handler-map lock is released and the loop
\* is back at its condition, ready for the next message.
C16_DispatchIsolated ==
  [][(loop["Client"].pc = "dispatch" /\ loop'["Client"] # loop["Client"]) =>
        /\ loop'["Client"].pc = "top"
        /\ handlerMutex'["Client"] = "free"
        /\ ~terminated']_vars

\* what thread x is waiting for: the thread that holds the lock x is about
\* to take, or the loop thread x is about to join; "none" when x does not wait.
Holder(m) == IF m = "free" THEN "none" ELSE m
WaitsFor(x) ==
  IF x \in Threads
  THEN CASE pc[x] = "cshutdown_lock" -> Holder(shutdownMutex["Client"])
         [] pc[x] = "sshutdown_lock" -> Holder(shutdownMutex["Server"])
         [] pc[x] = "con_lock" -> Holder(handlerMutex["Client"])
         [] pc[x] = "son_lock" -> Holder(handlerMutex["Server"])
         [] pc[x] = "emit_lock" -> Holder(reqMutex)
         [] pc[x] = "cshutdown_join" ->
              IF receiveThread["Client"].joinable /\ loop["Client"].pc # "exited"
              THEN "cloop" ELSE "none"
         [] pc[x] = "sshutdown_join" ->
              IF receiveThread["Server"].joinable /\ loop["Server"].pc # "exited"
              THEN "sloop" ELSE "none"
         [] OTHER -> "none"
  ELSE IF x = "cloop" /\ loop["Client"].pc = "lock" THEN Holder(handlerMutex["Client"])
  ELSE IF x = "sloop" /\ loop["Server"].pc = "lock" THEN Holder(handlerMutex["Server"])
  ELSE "none"
WaitsNext(x) == IF x = "none" THEN "none" ELSE WaitsFor(x)

\* C17: the handler-map lock, the request lock and the shutdown lock are never
\* waited on in a cycle.  Every lock that is held is held by a thread inside
\* the section that releases it; from every waiting thread the chain of
\* "waits for" ends at a thread that does not wait for a lock or a join; and a
\* loop thread that is being joined is on its way out.
C17_NoLockCycle ==
  terminated \/
  /\ \A i \in Instances :
       /\ shutdownMutex[i] # "free" =>
            pc[shutdownMutex[i]] \in
              IF i = "Client"
              THEN {"cshutdown_check", "cshutdown_flag", "cshutdown_close_sub",
                    "cshutdown_close_req", "cshutdown_join", "cshutdown_unflag"}
              ELSE {"sshutdown_check", "sshutdown_flag", "sshutdown_close_pub",
                    "sshutdown_close_rep", "sshutdown_join", "sshutdown_unflag"}
       /\ handlerMutex[i] # "free" =>
            /\ handlerMutex[i] = LoopThread[i]
            /\ loop[i].pc = "dispatch"
  /\ reqMutex # "free" => pc[reqMutex] \in {"emit_send", "emit_recv"}
  /\ \A x \in Threads \cup {"cloop", "sloop"} :
       WaitsNext(WaitsNext(WaitsNext(WaitsFor(x)))) = "none"
  /\ \A t \in Threads :
       /\ WaitsFor(t) = "cloop" => LoopEnds("Client")
       /\ WaitsFor(t) = "sloop" => LoopEnds("Server")

\* one caller waits in on() for the handler-map lock the Client's loop holds
\* during a dispatch, while the other waits in shutdown() for that loop.
C17_Witness ==
  /\ \E t \in Threads : pc[t] = "con_lock" /\ WaitsFor(t) = "cloop"
  /\ \E t \in Threads : pc[t] = "cshutdown_join" /\ WaitsFor(t) = "cloop"
  /\ loop["Client"].pc = "dispatch"

\* the steps of Client::shutdown that follow the taking of shutdownMutex and
\* are not the join.
ShutdownSteps(t) ==
  \/ ClientShutdownCheck(t) \/ ClientShutdownFlag(t) \/ ClientShutdownCloseSub(t)
  \/ ClientShutdownCloseReq(t) \/ ClientShutdownUnflag(t)

\* C18 as stated: an emit() that was in progress when shutdown() was called on
\* the same Client does not return a reply, it surfaces the transport error.
\* (In these runs the second caller starts its call while the first caller's
\* call is in progress, so the first caller's emit() was in progress when the
\* second caller's shutdown() was called.)
C18_NoReplyOnceShutdownCalled ==
  (/\ ret["t1"].op = "emit"
   /\ \/ pc["t2"] \in {"cshutdown_lock", "cshutdown_check", "cshutdown_flag",
                       "cshutdown_close_sub", "cshutdown_close_req",
                       "cshutdown_join", "cshutdown_unflag"} /\ ~loc["t2"].dtor
      \/ ret["t2"].op = "shutdown" /\ ~connected)
  => /\ ret["t1"].status = "error"
     /\ ret["t1"].what \in {"Failed to send request", "Failed to receive response"}

\* C18, amended: an emit() in progress when shutdown() is called does not block
\* forever: once shutdown() has set connected to false, no emit() is left in a
\* receive on an open endpoint, and an emit() whose endpoint is closed fails with the
\* transport error.  It returns a reply only when that reply was received
\* before the request endpoint was closed.  No step of shutdown() waits for
\* the request lock.
C18_EmitUnblockedByShutdown ==
  /\ [](terminated \/
        \A t \in Threads :
          /\ ~connected => ~(pc[t] = "emit_recv" /\ IsOpen(loc[t].h))
          /\ (pc[t] = "emit_recv" /\ ~IsOpen(loc[t].h)) => ENABLED EmitRecvFail(t)
          /\ pc[t] \in {"cshutdown_check", "cshutdown_flag", "cshutdown_close_sub",
                        "cshutdown_close_req", "cshutdown_unflag"} =>
                ENABLED ShutdownSteps(t))
  /\ [][\A t \in Threads :
          (pc[t] \in {"emit_send", "emit_recv"} /\ pc'[t] = "idle") =>
             /\ reqMutex' = "free"
             /\ (pc[t] = "emit_send" \/ ~IsOpen(loc[t].h)) =>
                   /\ ret'[t].status = "error"
                   /\ ret'[t].what \in {"Failed to send request",
                                        "Failed to receive response"}
             /\ ret'[t].status = "ok" =>
                   /\ pc[t] = "emit_recv" /\ IsOpen(loc[t].h)
                   /\ reqOut.state = "replied"]_vars

\* the first caller's emit() was blocked in its receive while the second
\* caller's shutdown() closed the request endpoint; emit() has thrown and
\* shutdown() has returned.
C18_Witness ==
  /\ ret["t1"].op = "emit" /\ ret["t1"].status = "error"
  /\ ret["t1"].what = "Failed to receive response"
  /\ ret["t2"].op = "shutdown"
  /\ ~connected

\* C19: when a shutdown() and a connect() (or serve()) that ran concurrently on
\* the same instance have both returned, the instance is Connected (running
\* and connected/started set, endpoints open, one live loop thread) or
\* Disconnected (both flags clear, endpoints closed, no thread left to join).
\* The first caller's call has returned without an error, the second caller's
\* shutdown() was called while it was in progress, and has returned too.
C19_ConnectedOrDisconnected ==
  (/\ ~terminated
   /\ pc["t1"] = "idle" /\ pc["t2"] = "idle"
   /\ ret["t1"].status = "ok" /\ ret["t2"].op = "shutdown")
  => /\ ret["t1"].op = "connect" =>
          \/ /\ isRunning["Client"] /\ connected
             /\ subSocket.isOpen /\ IsOpen(subSocket.socket)
             /\ reqSocket.isOpen /\ IsOpen(reqSocket.socket)
             /\ receiveThread["Client"].joinable /\ live["Client"] = 1
          \/ /\ ~isRunning["Client"] /\ ~connected
             /\ ~subSocket.isOpen /\ ~reqSocket.isOpen
             /\ ~receiveThread["Client"].joinable /\ live["Client"] = 0
     /\ ret["t1"].op = "serve" =>
          \/ /\ isRunning["Server"] /\ isStarted
             /\ pubSocket.isOpen /\ IsOpen(pubSocket.socket)
             /\ repSocket.isOpen /\ IsOpen(repSocket.socket)
             /\ receiveThread["Server"].joinable /\ live["Server"] = 1
          \/ /\ ~isRunning["Server"] /\ ~isStarted
             /\ ~pubSocket.isOpen /\ ~repSocket.isOpen
             /\ ~receiveThread["Server"].joinable /\ live["Server"] = 0

\* the handler the Client's loop has called cannot return: it waits for the
\* handler-map lock its own thread holds, or for the shutdown lock held by a
\* caller that waits in join() for the handler's thread.
HandlerStuck ==
  \/ loop["Client"].pc = "handler_on_lock"
  \/ /\ loop["Client"].pc = "handler_shutdown_lock"
     /\ \E t \in Threads :
          /\ shutdownMutex["Client"] = t
          /\ pc[t] = "cshutdown_join"
          /\ receiveThread["Client"].joinable

\* C20: a handler that calls on() or shutdown() on the instance whose loop
\* dispatched it returns: it is never blocked forever on the handler-map lock
\* held during the dispatch or on the join of the thread it runs on.
C20_HandlerReturns == terminated \/ ~HandlerStuck
====
